---- MODULE Spec2Model ----
(***************************************************************************)
(* CS2-Player-States: the batch orchestrator (ScraperManager), the         *)
(* persistence layer it drives (DatabaseService over the steam_ids,        *)
(* player_stats and scrape_logs tables) and the console commands that      *)
(* start, stop and reset it.                                               *)
(*                                                                         *)
(* Every `await` of the orchestrator on a database call, on the scrape of  *)
(* one player page or on a delay is one step of a run: the call's effect   *)
(* and the synchronous code that follows it up to the next `await` happen  *)
(* in that step.  Console commands and other runs interleave between the   *)
(* steps.                                                                  *)
(***************************************************************************)
EXTENDS Integers, Sequences, FiniteSets, TLC

----------------------------------------------------------------------------
(* Bounds of the model *)

\* identifiers the add commands name
NumUpsertIds == 2
\* longest list passed to addMultipleSteamIds
MaxList == 2
\* INSERT statements the server rejects per behaviour
MaxUpsertFaults == 1
\* longest row of siblings around a label
MaxSiblings == 4

\* identifiers in the queue table
NumIds == 3
\* identifiers in the queue table when run loops may overlap
NumOverlapIds == 2
\* startScraping invocations that get past the running check, per behaviour
MaxRuns == 2
\* rejected database calls per behaviour
MaxFaults == 2
\* rejected database calls per behaviour when run loops may overlap
MaxOverlapFaults == 1
\* external reset / add commands per behaviour
MaxExternal == 1
\* rejected database calls per behaviour when the queue starts with rows of
\* player_stats left by earlier runs
MaxRecordFaults == 1
\* DatabaseManager operations that may be in progress at once
MaxOps == 2
\* calls of DatabaseManager.execute / transaction per behaviour
MaxCalls == 3
\* rejected driver calls per behaviour of the pool
MaxPoolFaults == 2
\* queries in one transaction
MaxQueries == 2
\* config.connectionLimit.  The source sets 10; the model scales it down so
\* that operations wait for a free connection.
connectionLimit == 1
\* the database clock (CURRENT_TIMESTAMP) when the model starts: rows of the
\* queue were created at times 1..MaxTime
MaxTime == 2
\* largest priority given to an identifier
MaxPriority == 2
\* largest measured execution time of one scrape
MaxDuration == 1
\* this.batchSize.  The source fixes it at 5; the model scales it down so that
\* a queue of NumIds identifiers spans more than one batch.
batchSize == 2

SteamIds == 1..NumIds
OverlapIds == 1..NumOverlapIds
RunIds == 1..MaxRuns
Priorities == 1..MaxPriority
Durations == 1..MaxDuration

----------------------------------------------------------------------------
(* Values *)

\* SQL NULL / a JavaScript null; a present value v is <<v>>
NULL == <<>>
Some(v) == <<v>>

\* the stat columns of player_stats, in the order of the INSERT
StatFields ==
    {"kd_ratio", "hltv_rating", "win_rate", "headshot_percentage", "adr",
     "matches_played", "matches_won", "matches_lost", "matches_tied",
     "kills", "deaths", "assists", "headshots", "total_damage",
     "rounds_played", "clutch_success", "entry_success"}

\* the columns the extraction keeps as literal percentage text ("42%");
\* the model holds the digits before the sign
PercentFields ==
    {"win_rate", "headshot_percentage", "clutch_success", "entry_success"}

\* error.message of a rejected database call and of an exception thrown by
\* scrapePlayerStats outside its own try block
DbErrorMessage == "Query execution failed"
BrowserErrorMessage == "Browser initialization failed"
\* the messages scrapePlayerStats returns
HttpErrorMessage == "HTTP 500"
NoStatsMessage == "No stats data found - player might have no recorded matches"

VARIABLES
    steam_ids,       \* table steam_ids: steam_id64 -> row
    player_stats,    \* table player_stats: steam_id64 -> row (UNIQUE steam_id64)
    scrape_logs,     \* table scrape_logs: the sequence of rows, id = index
    isRunning,       \* ScraperManager.isRunning
    processedCount,  \* ScraperManager.processedCount
    successCount,    \* ScraperManager.successCount
    failureCount,    \* ScraperManager.failureCount
    runs,            \* the startScraping invocations: RunIds -> frame
    now,             \* CURRENT_TIMESTAMP
    faults,          \* faults injected so far
    externals,       \* external reset / add commands so far
    browser,         \* ScraperService.browser: puppeteer launches and closes
    pool,            \* DatabaseManager.pool and the operations using it
    steam_id_rows,   \* table steam_ids row by row, and the last INSERT on it
    document,        \* the document of the page scrapePlayerStats has open
    stats,           \* scrapePlayerStats: what page.evaluate returned last
    firstEvaluation, \* history: the first document evaluated and its result
    scrape,          \* the scrapePlayerStats call: where it is suspended, its page
    query            \* the last query getTopPlayers handed to dbManager.execute

vars ==
    <<steam_ids, player_stats, scrape_logs, isRunning, processedCount,
      successCount, failureCount, runs, now, faults, externals, browser, pool,
      steam_id_rows, document, stats, firstEvaluation, scrape, query>>

----------------------------------------------------------------------------
(* DatabaseService: each query as a function of the tables *)

\* ORDER BY priority DESC, created_at ASC: row a sorts strictly before row b
SortsBefore(t, a, b) ==
    \/ t[a].priority > t[b].priority
    \/ t[a].priority = t[b].priority /\ t[a].created_at < t[b].created_at

\* a WHERE clause that takes failed rows as well
PendingRows_WithFailed(t) == {i \in DOMAIN t : t[i].status \in {"pending", "failed"}}

\* WHERE status = 'pending'
PendingRows(t) == {i \in DOMAIN t : t[i].status = "pending"}

\* The results the ORDER BY ... LIMIT admits over `rows`: rows that tie on both
\* sort keys come in an order the database chooses.
RECURSIVE OrderedLimit(_, _, _)
OrderedLimit(t, rows, limit) ==
    IF rows = {} \/ limit = 0
    THEN {<<>>}
    ELSE LET first == {a \in rows : \A b \in rows : ~SortsBefore(t, b, a)}
         IN  UNION {{<<a>> \o s : s \in OrderedLimit(t, rows \ {a}, limit - 1)}
                      : a \in first}

\* the query without its WHERE clause
getPendingSteamIds_NoStatusFilter(t, limit) == OrderedLimit(t, DOMAIN t, limit)

getPendingSteamIds(t, limit) == OrderedLimit(t, PendingRows(t), limit)

\* the UPDATE matching no row
updateSteamIdStatus_NoRowMatched(t, steamId64, status) == t

updateSteamIdStatus(t, steamId64, status) ==
    IF steamId64 \in DOMAIN t
    THEN [t EXCEPT ![steamId64].status = status, ![steamId64].updated_at = now]
    ELSE t

\* INSERT ... ON DUPLICATE KEY UPDATE priority, updated_at
addSteamId(t, steamId64, priority) ==
    IF steamId64 \in DOMAIN t
    THEN [t EXCEPT ![steamId64].priority = priority, ![steamId64].updated_at = now]
    ELSE [i \in DOMAIN t \cup {steamId64} |->
            IF i = steamId64
            THEN [status |-> "pending", priority |-> priority,
                  created_at |-> now, updated_at |-> now]
            ELSE t[i]]

resetSteamIdStatus(t, steamId64) ==
    IF steamId64 \in DOMAIN t
    THEN [t EXCEPT ![steamId64].status = "pending", ![steamId64].updated_at = now]
    ELSE t

\* the UPDATE without its WHERE clause
resetAllFailedSteamIds_NoWhere(t) ==
    [i \in DOMAIN t |-> [t[i] EXCEPT !.status = "pending", !.updated_at = now]]

\* UPDATE steam_ids SET status = 'pending', updated_at = CURRENT_TIMESTAMP
\* WHERE status = 'failed'
resetAllFailedSteamIds(t) ==
    [i \in DOMAIN t |->
        IF t[i].status = "failed"
        THEN [t[i] EXCEPT !.status = "pending", !.updated_at = now]
        ELSE t[i]]

\* playerData.<field> || null: undefined and every falsy value become NULL.
\* A number is falsy when it is 0; percentage text ("0%") never is.
OrNull(playerData, f) ==
    IF f \notin DOMAIN playerData THEN NULL
    ELSE IF f \notin PercentFields /\ playerData[f] = 0 THEN NULL
    ELSE Some(playerData[f])

\* the upsert without `error_message = NULL` in its update list
savePlayerStats_KeepsErrorMessage(ps, steamId64, playerData) ==
    LET row == [player_name    |-> IF playerData.player_name = "" THEN NULL
                                       ELSE Some(playerData.player_name),
                profile_url    |-> Some(playerData.profile_url),
                stats          |-> [f \in StatFields |-> OrNull(playerData.stats, f)],
                last_scraped   |-> now,
                scrape_success |-> TRUE,
                error_message  |-> IF steamId64 \in DOMAIN ps
                                   THEN ps[steamId64].error_message ELSE NULL]
    IN  [i \in DOMAIN ps \cup {steamId64} |-> IF i = steamId64 THEN row ELSE ps[i]]

\* an update list that keeps a column when the new value is NULL
savePlayerStats_KeepsUnset(ps, steamId64, playerData) ==
    LET row == [player_name    |-> IF playerData.player_name = "" THEN NULL
                                       ELSE Some(playerData.player_name),
                profile_url    |-> Some(playerData.profile_url),
                stats          |-> [f \in StatFields |->
                                      IF OrNull(playerData.stats, f) = NULL
                                           /\ steamId64 \in DOMAIN ps
                                      THEN ps[steamId64].stats[f]
                                      ELSE OrNull(playerData.stats, f)],
                last_scraped   |-> now,
                scrape_success |-> TRUE,
                error_message  |-> NULL]
    IN  [i \in DOMAIN ps \cup {steamId64} |-> IF i = steamId64 THEN row ELSE ps[i]]

\* INSERT ... ON DUPLICATE KEY UPDATE of every column, error_message = NULL
savePlayerStats(ps, steamId64, playerData) ==
    LET row == [player_name    |-> IF playerData.player_name = "" THEN NULL
                                       ELSE Some(playerData.player_name),
                profile_url    |-> Some(playerData.profile_url),
                stats          |-> [f \in StatFields |-> OrNull(playerData.stats, f)],
                last_scraped   |-> now,
                scrape_success |-> TRUE,
                error_message  |-> NULL]
    IN  [i \in DOMAIN ps \cup {steamId64} |-> IF i = steamId64 THEN row ELSE ps[i]]

\* INSERT (steam_id64, last_scraped, scrape_success, error_message) ... ON
\* DUPLICATE KEY UPDATE of those three; a fresh row takes the schema's column
\* defaults (matches_tied INT DEFAULT 0, the others NULL)
savePlayerStatsError(ps, steamId64, errorMessage) ==
    IF steamId64 \in DOMAIN ps
    THEN [ps EXCEPT ![steamId64].last_scraped = now,
                    ![steamId64].scrape_success = FALSE,
                    ![steamId64].error_message = Some(errorMessage)]
    ELSE [i \in DOMAIN ps \cup {steamId64} |->
            IF i = steamId64
            THEN [player_name    |-> NULL,
                  profile_url    |-> NULL,
                  stats          |-> [f \in StatFields |->
                                        IF f = "matches_tied" THEN Some(0) ELSE NULL],
                  last_scraped   |-> now,
                  scrape_success |-> FALSE,
                  error_message  |-> Some(errorMessage)]
            ELSE ps[i]]

\* INSERT INTO scrape_logs; the new row's id (result.insertId) is its index
logScrapeStart(logs, steamId64) ==
    Append(logs, [steam_id64      |-> steamId64,
                  status          |-> "started",
                  message         |-> "Scraping started",
                  execution_time  |-> NULL,
                  stats_extracted |-> 0,
                  created_at      |-> now])

logScrapeSuccess(logs, logId, steamId64, executionTime, statsExtracted) ==
    [i \in DOMAIN logs |->
        IF i = logId /\ logs[i].steam_id64 = steamId64
        THEN [logs[i] EXCEPT !.status = "success",
                             !.message = "Scraping completed successfully",
                             !.execution_time = Some(executionTime),
                             !.stats_extracted = statsExtracted]
        ELSE logs[i]]

logScrapeFailure(logs, logId, steamId64, executionTime, errorMessage) ==
    [i \in DOMAIN logs |->
        IF i = logId /\ logs[i].steam_id64 = steamId64
        THEN [logs[i] EXCEPT !.status = "failed",
                             !.message = errorMessage,
                             !.execution_time = Some(executionTime)]
        ELSE logs[i]]

----------------------------------------------------------------------------
(* ScraperService.scrapePlayerStats *)

\* largest stat value a sampled page carries
MaxValue == 1

EmptyStats == [f \in {} |-> 0]

\* the stat mappings page.evaluate may return: every partial mapping of
\* `fields` into 0..MaxValue, the empty one included
StatMappings(fields) ==
    UNION {[S -> 0..MaxValue] : S \in SUBSET fields}

\* what the browser gives for one player page: a navigation / wait error, or
\* the evaluated player name and stat mapping
Pages(names, mappings) ==
    {[error |-> HttpErrorMessage, player_name |-> "Unknown", stats |-> EmptyStats]}
      \cup {[error |-> "", player_name |-> n, stats |-> m] : n \in names, m \in mappings}

\* scrapePlayerStats throws instead of returning: this.initialize() before its
\* try block or page.close() in its finally block failed
ThrownPage ==
    [error |-> BrowserErrorMessage, player_name |-> "Unknown", stats |-> EmptyStats]

NoData == [steam_id64 |-> 0, player_name |-> "", profile_url |-> 0, stats |-> EmptyStats]

NoResult ==
    [success |-> FALSE, data |-> NoData, executionTime |-> 0, statsCount |-> 0,
     error |-> ""]

scrapePlayerStats(steamId64, page, executionTime) ==
    IF page.error # ""
    THEN [success |-> FALSE, data |-> NoData, executionTime |-> executionTime,
          statsCount |-> 0, error |-> page.error]
    ELSE IF DOMAIN page.stats = {}
    THEN [success |-> FALSE, data |-> NoData, executionTime |-> executionTime,
          statsCount |-> 0, error |-> NoStatsMessage]
    ELSE [success |-> TRUE,
          data |-> [steam_id64 |-> steamId64, player_name |-> page.player_name,
                    profile_url |-> steamId64, stats |-> page.stats],
          executionTime |-> executionTime,
          statsCount |-> Cardinality(DOMAIN page.stats), error |-> ""]

----------------------------------------------------------------------------
(* DatabaseManager: the pool and the operations that use it *)

OpIds == 1..MaxOps

\* an operation not called: where it is suspended (pc), which method it is
\* (kind), how many queries its list holds and how many are left to execute;
\* on its connection, the effects executed in the open transaction (applied)
\* and those committed (visible) and how the transaction ended; the first
\* call that rejected (failed) and the call whose error the operation throws
IdleOp ==
    [pc |-> "idle", kind |-> "", queries |-> 0, left |-> 0, applied |-> 0,
     visible |-> 0, ended |-> "", failed |-> "", thrown |-> ""]

\* the pool after DatabaseManager.initialize: no connection held
NoPool == [held |-> 0, calls |-> 0, ops |-> [o \in OpIds |-> IdleOp]]

----------------------------------------------------------------------------
(* ScraperService.browser *)

\* the browser as ScraperManager.initialize leaves it when the application
\* starts: launched once, never closed
LaunchedBrowser == [launched |-> 1, closed |-> 0]

\* this.browser is not null
BrowserOpen(b) == b.launched > b.closed

\* scrapePlayerStats: if (!this.browser) await this.initialize()
EnsureBrowser(b) ==
    IF BrowserOpen(b) THEN b ELSE [b EXCEPT !.launched = b.launched + 1]

\* ScraperService.close: if (this.browser) { await this.browser.close();
\* this.browser = null }
close(b) ==
    IF BrowserOpen(b) THEN [b EXCEPT !.closed = b.closed + 1] ELSE b

\* scrapePlayerStats not called: where the call is suspended (pc), whether
\* `page` is assigned and open, which await or test failed (fault) with which
\* message (error), what the call returned and how many calls have been made
NoScrape ==
    [pc |-> "idle", steamId64 |-> 0, page |-> "undefined", fault |-> "",
     error |-> "", result |-> NoResult, calls |-> 0]

\* no query executed yet: its text, its parameters and, as history, the
\* orderBy argument of the call that built it
NoQuery == [text |-> "", params |-> <<>>, argument |-> ""]

----------------------------------------------------------------------------
(* The steam_ids table row by row, and the page of one scrape *)

\* no INSERT executed yet
NoStatement == [name |-> "", values |-> <<>>, rejected |-> FALSE]

\* table steam_ids without rows: rows in insertion order, the last INSERT
EmptyTable == [rows |-> <<>>, statement |-> NoStatement]

\* no page open
NoDocument == <<>>

\* page.evaluate has not run
NotEvaluated == [player_name |-> "", stats |-> EmptyStats]

\* nothing evaluated yet
NoEvaluation ==
    [document |-> NoDocument, result |-> NotEvaluated, between |-> FALSE, again |-> FALSE]

----------------------------------------------------------------------------
(* ScraperManager: the frames of its startScraping invocations *)

\* a frame: where the invocation is suspended (pc) and its locals.
\*   batch, idx, results : pendingSteamIds, the for loop's position, results
\*   logId, result, error: processSingleSteamId's locals
\*   reached             : history, the status of the current identifier right
\*                         after this invocation's last write of it
\*   stopped             : history, stopScraping was called during this run
\*   atStart             : history, the identifiers pending when the run began
\*   hadRecord           : history, the current identifier had a player_stats
\*                         row when its attempt began
\*   attempted           : history, the identifiers this invocation has called
\*                         processSingleSteamId for
\*   rejectedAt          : history, the await whose rejection ended the run
\*   paced               : history, what this invocation did last of ending a
\*                         scrape ("fetched") and awaiting a delay
\*                         ("itemDelay", "batchDelay"); "" before its first
IdleRun ==
    [pc |-> "idle", batch |-> <<>>, idx |-> 0, results |-> <<>>, logId |-> 0,
     result |-> NoResult, error |-> "", reached |-> "", stopped |-> FALSE,
     atStart |-> {}, hadRecord |-> FALSE, attempted |-> {}, rejectedAt |-> "",
     paced |-> ""]

\* the awaits of processSingleSteamId
ItemPcs ==
    {"logScrapeStart", "setProcessing", "scrapePlayerStats",
     "savePlayerStats", "setCompleted", "logScrapeSuccess",
     "savePlayerStatsError", "setFailed", "logScrapeFailure",
     "catchSavePlayerStatsError", "catchSetFailed", "catchLogScrapeFailure"}

ActivePcs == ItemPcs \cup {"getPendingSteamIds", "itemDelay", "batchDelay"}

Active(r) == runs[r].pc \in ActivePcs
InFlight(r) == runs[r].pc \in ItemPcs
Current(r) == runs[r].batch[runs[r].idx]

\* startScraping returns: the while loop ended or broke.  The locals of the
\* invocation are gone.
Returned(run) == [IdleRun EXCEPT !.pc = "done", !.stopped = run.stopped]
\* startScraping rejects: an error left processBatch
Rejected(run) ==
    [IdleRun EXCEPT !.pc = "rejected", !.stopped = run.stopped,
                    !.rejectedAt = run.pc]

\* startScraping after processBatch returned {processed: results.length,
\* completed: false}: break on processed === 0, else the delay between
\* batches when still running, else the while condition ends the loop
AfterBatch(run, running) ==
    IF Len(run.results) = 0 \/ ~running
    THEN Returned(run)
    ELSE [run EXCEPT !.pc = "batchDelay"]

\* processBatch at the head of one iteration of its for loop
ForLoop(run, running) ==
    IF ~running
    THEN AfterBatch(run, running)
    ELSE [run EXCEPT !.pc = "logScrapeStart", !.logId = 0, !.result = NoResult,
                     !.error = "", !.reached = "", !.hadRecord = FALSE,
                     !.attempted = run.attempted \cup {run.batch[run.idx]}]

\* a processBatch whose for loop ends at the first item that failed
AfterItem_AbortOnFailure(run, success, running) ==
    LET res == [success |-> success, steamId64 |-> run.batch[run.idx],
                reached |-> run.reached]
        pushed == [run EXCEPT !.results = Append(run.results, res)]
    IN  IF run.idx < Len(run.batch) /\ success
        THEN [pushed EXCEPT !.pc = "itemDelay"]
        ELSE AfterBatch(pushed, running)

\* a processBatch that goes on to the next item without the delay
AfterItem_NoDelay(run, success, running) ==
    LET res == [success |-> success, steamId64 |-> run.batch[run.idx],
                reached |-> run.reached]
        pushed == [run EXCEPT !.results = Append(run.results, res)]
    IN  IF run.idx < Len(run.batch)
        THEN ForLoop([pushed EXCEPT !.idx = run.idx + 1], running)
        ELSE AfterBatch(pushed, running)

\* processBatch after processSingleSteamId returned {success, steamId64}
AfterItem(run, success, running) ==
    LET res == [success |-> success, steamId64 |-> run.batch[run.idx],
                reached |-> run.reached]
        pushed == [run EXCEPT !.results = Append(run.results, res)]
    IN  IF run.idx < Len(run.batch)
        THEN [pushed EXCEPT !.pc = "itemDelay"]
        ELSE AfterBatch(pushed, running)

\* a startScraping without its finally block
Continue_NoFinally(r, frame) ==
    /\ runs' = [runs EXCEPT ![r] = frame]
    /\ isRunning' = isRunning

\* the frame of run r becomes `frame`; startScraping's finally block clears
\* the running flag when the invocation returns or rejects
Continue(r, frame) ==
    /\ runs' = [runs EXCEPT ![r] = frame]
    /\ isRunning' = IF frame.pc \in {"done", "rejected"} THEN FALSE ELSE isRunning

\* a database call rejects (dbManager.execute rethrows the driver's error)
Fault == faults' = faults + 1

\* the outcomes of a database call while fewer than `max` calls have rejected
FaultChoices(max) == IF faults < max THEN BOOLEAN ELSE {FALSE}

\* The queue holds `ids`, inserted as the README does (status and priority by
\* column default), at times `created`; nothing has been scraped.
InitQueue(ids, priorities, created, clock) ==
    /\ steam_ids \in [ids -> {[status |-> "pending", priority |-> p,
                                created_at |-> c, updated_at |-> c]
                                 : p \in priorities, c \in created}]
    /\ player_stats = [i \in {} |-> NULL]
    /\ scrape_logs = <<>>
    /\ isRunning = FALSE
    /\ processedCount = 0
    /\ successCount = 0
    /\ failureCount = 0
    /\ runs = [r \in RunIds |-> IdleRun]
    /\ now = clock
    /\ faults = 0
    /\ externals = 0
    /\ browser = LaunchedBrowser
    /\ pool = NoPool
    /\ steam_id_rows = EmptyTable
    /\ document = NoDocument
    /\ stats = NotEvaluated
    /\ firstEvaluation = NoEvaluation
    /\ scrape = NoScrape
    /\ query = NoQuery

----------------------------------------------------------------------------
(* Console commands (CS2StatsApp.handleUserInput) and external callers *)

\* the frame a new invocation takes: the lowest one not used yet
FreeRun(r) ==
    /\ runs[r].pc = "idle"
    /\ \A q \in RunIds : q < r => runs[q].pc # "idle"

\* start: CS2StatsApp.startScraping does not await ScraperManager.startScraping.
\* Up to its first await the invocation sets the flag, zeroes the counters,
\* enters the while loop and issues processBatch's query.
\* `overlap`: the command may come while an earlier invocation, stopped but
\* still suspended, is alive.
startScraping(overlap) ==
    IF isRunning
    THEN UNCHANGED vars
    ELSE \E r \in RunIds :
           /\ FreeRun(r)
           /\ overlap \/ \A q \in RunIds : ~Active(q)
           /\ isRunning' = TRUE
           /\ processedCount' = 0
           /\ successCount' = 0
           /\ failureCount' = 0
           /\ runs' = [runs EXCEPT ![r] = [IdleRun EXCEPT
                                             !.pc = "getPendingSteamIds",
                                             !.atStart = PendingRows(steam_ids)]]
           /\ UNCHANGED <<browser, pool, steam_id_rows, document, stats, firstEvaluation, scrape, query>>
           /\ UNCHANGED <<steam_ids, player_stats, scrape_logs, now, faults, externals>>

\* stop
stopScraping ==
    IF ~isRunning
    THEN UNCHANGED vars
    ELSE /\ isRunning' = FALSE
         /\ runs' = [r \in RunIds |->
                       IF Active(r) THEN [runs[r] EXCEPT !.stopped = TRUE] ELSE runs[r]]
         /\ UNCHANGED <<browser, pool, steam_id_rows, document, stats, firstEvaluation, scrape, query>>
         /\ UNCHANGED <<steam_ids, player_stats, scrape_logs, processedCount,
                        successCount, failureCount, now, faults, externals>>

\* reset: ScraperManager.resetFailedIds
resetFailedIds ==
    /\ externals < MaxExternal
    /\ externals' = externals + 1
    /\ steam_ids' = resetAllFailedSteamIds(steam_ids)
    /\ UNCHANGED <<browser, pool, steam_id_rows, document, stats, firstEvaluation, scrape, query>>
    /\ UNCHANGED <<player_stats, scrape_logs, isRunning, processedCount,
                   successCount, failureCount, runs, now, faults>>

\* DatabaseService.resetSteamIdStatus called for one identifier
ResetSteamIdStatus ==
    /\ externals < MaxExternal
    /\ externals' = externals + 1
    /\ \E steamId64 \in SteamIds :
         steam_ids' = resetSteamIdStatus(steam_ids, steamId64)
    /\ UNCHANGED <<browser, pool, steam_id_rows, document, stats, firstEvaluation, scrape, query>>
    /\ UNCHANGED <<player_stats, scrape_logs, isRunning, processedCount,
                   successCount, failureCount, runs, now, faults>>

\* ScraperManager.addSteamIds with one identifier
AddSteamId ==
    /\ externals < MaxExternal
    /\ externals' = externals + 1
    /\ \E steamId64 \in SteamIds, priority \in Priorities :
         steam_ids' = addSteamId(steam_ids, steamId64, priority)
    /\ UNCHANGED <<browser, pool, steam_id_rows, document, stats, firstEvaluation, scrape, query>>
    /\ UNCHANGED <<player_stats, scrape_logs, isRunning, processedCount,
                   successCount, failureCount, runs, now, faults>>

\* the frame of an invocation whose process has exited
ExitedRun == [IdleRun EXCEPT !.pc = "exited"]

\* exit: CS2StatsApp.exit awaits ScraperManager.cleanup, which closes the
\* browser and the pool, then calls process.exit(0); every invocation still
\* suspended ends with the process.  The command is taken as one step.
exit ==
    /\ \E r \in RunIds : runs[r].pc # "exited"
    /\ browser' = close(browser)
    /\ runs' = [r \in RunIds |-> ExitedRun]
    /\ isRunning' = FALSE
    /\ UNCHANGED <<steam_ids, player_stats, scrape_logs, processedCount,
                   successCount, failureCount, now, faults, externals, pool,
                   steam_id_rows, document, stats, firstEvaluation, scrape, query>>

\* SIGINT / SIGTERM: the handler builds a new CS2StatsApp, whose
\* isInitialized is false, skips cleanup and calls process.exit(0)
signal ==
    /\ \E r \in RunIds : runs[r].pc # "exited"
    /\ runs' = [r \in RunIds |-> ExitedRun]
    /\ isRunning' = FALSE
    /\ UNCHANGED <<steam_ids, player_stats, scrape_logs, processedCount,
                   successCount, failureCount, now, faults, externals,
                   browser, pool, steam_id_rows, document, stats, firstEvaluation, scrape, query>>

----------------------------------------------------------------------------
(* The steps of a run.  F is the set of outcomes the environment has for a  *)
(* database call: {FALSE} when it cannot reject, BOOLEAN when it may.      *)

\* processBatch: await DatabaseService.getPendingSteamIds(this.batchSize)
AwaitGetPendingSteamIds(r, F) ==
    /\ runs[r].pc = "getPendingSteamIds"
    /\ \E fault \in F :
         IF fault
         THEN /\ Fault
              /\ Continue(r, Rejected(runs[r]))
         ELSE /\ UNCHANGED faults
              /\ \E pendingSteamIds \in getPendingSteamIds(steam_ids, batchSize) :
                   Continue(r,
                     IF Len(pendingSteamIds) = 0
                     THEN Returned([runs[r] EXCEPT !.batch = <<>>, !.idx = 0,
                                                   !.results = <<>>])
                     ELSE ForLoop([runs[r] EXCEPT !.batch = pendingSteamIds,
                                                  !.idx = 1, !.results = <<>>],
                                  isRunning))
    /\ UNCHANGED <<browser, pool, steam_id_rows, document, stats, firstEvaluation, scrape, query>>
    /\ UNCHANGED <<steam_ids, player_stats, scrape_logs, processedCount,
                   successCount, failureCount, now, externals>>

\* processSingleSteamId: await DatabaseService.logScrapeStart, before the try
AwaitLogScrapeStart(r, F) ==
    /\ runs[r].pc = "logScrapeStart"
    /\ \E fault \in F :
         IF fault
         THEN /\ Fault
              /\ Continue(r, Rejected(runs[r]))
              /\ UNCHANGED scrape_logs
         ELSE /\ UNCHANGED faults
              /\ scrape_logs' = logScrapeStart(scrape_logs, Current(r))
              /\ Continue(r, [runs[r] EXCEPT
                                 !.pc = "setProcessing",
                                 !.logId = Len(scrape_logs) + 1,
                                 !.hadRecord = Current(r) \in DOMAIN player_stats])
    /\ UNCHANGED <<browser, pool, steam_id_rows, document, stats, firstEvaluation, scrape, query>>
    /\ UNCHANGED <<steam_ids, player_stats, processedCount, successCount,
                   failureCount, now, externals>>

\* a database call inside the try block rejects: control enters the catch block
Caught(r, message) ==
    /\ Fault
    /\ Continue(r, [runs[r] EXCEPT !.pc = "catchSavePlayerStatsError",
                                   !.error = message])

\* try: await updateSteamIdStatus(steamId64, 'processing')
AwaitSetProcessing(r, F) ==
    /\ runs[r].pc = "setProcessing"
    /\ \E fault \in F :
         IF fault
         THEN /\ Caught(r, DbErrorMessage)
              /\ UNCHANGED steam_ids
         ELSE /\ UNCHANGED faults
              /\ steam_ids' = updateSteamIdStatus(steam_ids, Current(r), "processing")
              /\ Continue(r, [runs[r] EXCEPT !.pc = "scrapePlayerStats",
                                             !.reached = steam_ids'[Current(r)].status])
    /\ UNCHANGED <<browser, pool, steam_id_rows, document, stats, firstEvaluation, scrape, query>>
    /\ UNCHANGED <<player_stats, scrape_logs, processedCount, successCount,
                   failureCount, now, externals>>

\* try: await this.scraperService.scrapePlayerStats(steamId64)
AwaitScrapePlayerStats(r, pages) ==
    /\ runs[r].pc = "scrapePlayerStats"
    /\ \E page \in pages, executionTime \in Durations :
         IF page = ThrownPage
         THEN Continue(r, [runs[r] EXCEPT !.pc = "catchSavePlayerStatsError",
                                          !.error = page.error,
                                          !.paced = "fetched"])
         ELSE LET result == scrapePlayerStats(Current(r), page, executionTime)
              IN  Continue(r, [runs[r] EXCEPT
                                 !.result = result,
                                 !.paced = "fetched",
                                 !.pc = IF result.success
                                        THEN "savePlayerStats"
                                        ELSE "savePlayerStatsError"])
    /\ browser' = EnsureBrowser(browser)
    /\ UNCHANGED <<pool, steam_id_rows, document, stats, firstEvaluation, scrape, query>>
    /\ UNCHANGED <<steam_ids, player_stats, scrape_logs, processedCount,
                   successCount, failureCount, now, faults, externals>>

\* if (result.success): await savePlayerStats(steamId64, result.data)
AwaitSavePlayerStats(r, F) ==
    /\ runs[r].pc = "savePlayerStats"
    /\ \E fault \in F :
         IF fault
         THEN /\ Caught(r, DbErrorMessage)
              /\ UNCHANGED player_stats
         ELSE /\ UNCHANGED faults
              /\ player_stats' = savePlayerStats(player_stats, Current(r),
                                                 runs[r].result.data)
              /\ Continue(r, [runs[r] EXCEPT !.pc = "setCompleted"])
    /\ UNCHANGED <<browser, pool, steam_id_rows, document, stats, firstEvaluation, scrape, query>>
    /\ UNCHANGED <<steam_ids, scrape_logs, processedCount, successCount,
                   failureCount, now, externals>>

\* await updateSteamIdStatus(steamId64, 'completed')
AwaitSetCompleted(r, F) ==
    /\ runs[r].pc = "setCompleted"
    /\ \E fault \in F :
         IF fault
         THEN /\ Caught(r, DbErrorMessage)
              /\ UNCHANGED steam_ids
         ELSE /\ UNCHANGED faults
              /\ steam_ids' = updateSteamIdStatus(steam_ids, Current(r), "completed")
              /\ Continue(r, [runs[r] EXCEPT !.pc = "logScrapeSuccess",
                                             !.reached = steam_ids'[Current(r)].status])
    /\ UNCHANGED <<browser, pool, steam_id_rows, document, stats, firstEvaluation, scrape, query>>
    /\ UNCHANGED <<player_stats, scrape_logs, processedCount, successCount,
                   failureCount, now, externals>>

\* await logScrapeSuccess(...); this.successCount++; return; finally
\* this.processedCount++; then processBatch pushes the result
AwaitLogScrapeSuccess(r, F) ==
    /\ runs[r].pc = "logScrapeSuccess"
    /\ \E fault \in F :
         IF fault
         THEN /\ Caught(r, DbErrorMessage)
              /\ UNCHANGED <<scrape_logs, processedCount, successCount>>
         ELSE /\ UNCHANGED faults
              /\ scrape_logs' = logScrapeSuccess(scrape_logs, runs[r].logId,
                                   Current(r), runs[r].result.executionTime,
                                   runs[r].result.statsCount)
              /\ successCount' = successCount + 1
              /\ processedCount' = processedCount + 1
              /\ Continue(r, AfterItem(runs[r], TRUE, isRunning))
    /\ UNCHANGED <<browser, pool, steam_id_rows, document, stats, firstEvaluation, scrape, query>>
    /\ UNCHANGED <<steam_ids, player_stats, failureCount, now, externals>>

\* else: await savePlayerStatsError(steamId64, result.error)
AwaitSavePlayerStatsError(r, F) ==
    /\ runs[r].pc = "savePlayerStatsError"
    /\ \E fault \in F :
         IF fault
         THEN /\ Caught(r, DbErrorMessage)
              /\ UNCHANGED player_stats
         ELSE /\ UNCHANGED faults
              /\ player_stats' = savePlayerStatsError(player_stats, Current(r),
                                                      runs[r].result.error)
              /\ Continue(r, [runs[r] EXCEPT !.pc = "setFailed"])
    /\ UNCHANGED <<browser, pool, steam_id_rows, document, stats, firstEvaluation, scrape, query>>
    /\ UNCHANGED <<steam_ids, scrape_logs, processedCount, successCount,
                   failureCount, now, externals>>

\* await updateSteamIdStatus(steamId64, 'failed')
AwaitSetFailed(r, F) ==
    /\ runs[r].pc = "setFailed"
    /\ \E fault \in F :
         IF fault
         THEN /\ Caught(r, DbErrorMessage)
              /\ UNCHANGED steam_ids
         ELSE /\ UNCHANGED faults
              /\ steam_ids' = updateSteamIdStatus(steam_ids, Current(r), "failed")
              /\ Continue(r, [runs[r] EXCEPT !.pc = "logScrapeFailure",
                                             !.reached = steam_ids'[Current(r)].status])
    /\ UNCHANGED <<browser, pool, steam_id_rows, document, stats, firstEvaluation, scrape, query>>
    /\ UNCHANGED <<player_stats, scrape_logs, processedCount, successCount,
                   failureCount, now, externals>>

\* await logScrapeFailure(...); this.failureCount++; return; finally
AwaitLogScrapeFailure(r, F) ==
    /\ runs[r].pc = "logScrapeFailure"
    /\ \E fault \in F :
         IF fault
         THEN /\ Caught(r, DbErrorMessage)
              /\ UNCHANGED <<scrape_logs, processedCount, failureCount>>
         ELSE /\ UNCHANGED faults
              /\ scrape_logs' = logScrapeFailure(scrape_logs, runs[r].logId,
                                   Current(r), runs[r].result.executionTime,
                                   runs[r].result.error)
              /\ failureCount' = failureCount + 1
              /\ processedCount' = processedCount + 1
              /\ Continue(r, AfterItem(runs[r], FALSE, isRunning))
    /\ UNCHANGED <<browser, pool, steam_id_rows, document, stats, firstEvaluation, scrape, query>>
    /\ UNCHANGED <<steam_ids, player_stats, successCount, now, externals>>

\* a call inside the catch block rejects: the finally block counts the item
\* and the error leaves processSingleSteamId, processBatch and startScraping
Thrown(r) ==
    /\ Fault
    /\ processedCount' = processedCount + 1
    /\ Continue(r, Rejected(runs[r]))

\* catch: await savePlayerStatsError(steamId64, error.message)
CatchSavePlayerStatsError(r, F) ==
    /\ runs[r].pc = "catchSavePlayerStatsError"
    /\ \E fault \in F :
         IF fault
         THEN /\ Thrown(r)
              /\ UNCHANGED player_stats
         ELSE /\ UNCHANGED <<faults, processedCount>>
              /\ player_stats' = savePlayerStatsError(player_stats, Current(r),
                                                      runs[r].error)
              /\ Continue(r, [runs[r] EXCEPT !.pc = "catchSetFailed"])
    /\ UNCHANGED <<browser, pool, steam_id_rows, document, stats, firstEvaluation, scrape, query>>
    /\ UNCHANGED <<steam_ids, scrape_logs, successCount, failureCount, now,
                   externals>>

\* catch: await updateSteamIdStatus(steamId64, 'failed')
CatchSetFailed(r, F) ==
    /\ runs[r].pc = "catchSetFailed"
    /\ \E fault \in F :
         IF fault
         THEN /\ Thrown(r)
              /\ UNCHANGED steam_ids
         ELSE /\ UNCHANGED <<faults, processedCount>>
              /\ steam_ids' = updateSteamIdStatus(steam_ids, Current(r), "failed")
              /\ Continue(r, [runs[r] EXCEPT !.pc = "catchLogScrapeFailure",
                                             !.reached = steam_ids'[Current(r)].status])
    /\ UNCHANGED <<browser, pool, steam_id_rows, document, stats, firstEvaluation, scrape, query>>
    /\ UNCHANGED <<player_stats, scrape_logs, successCount, failureCount, now,
                   externals>>

\* catch: await logScrapeFailure(logId, steamId64, 0, error.message);
\* this.failureCount++; return; finally
CatchLogScrapeFailure(r, F) ==
    /\ runs[r].pc = "catchLogScrapeFailure"
    /\ \E fault \in F :
         IF fault
         THEN /\ Thrown(r)
              /\ UNCHANGED <<scrape_logs, failureCount>>
         ELSE /\ UNCHANGED faults
              /\ scrape_logs' = logScrapeFailure(scrape_logs, runs[r].logId,
                                   Current(r), 0, runs[r].error)
              /\ failureCount' = failureCount + 1
              /\ processedCount' = processedCount + 1
              /\ Continue(r, AfterItem(runs[r], FALSE, isRunning))
    /\ UNCHANGED <<browser, pool, steam_id_rows, document, stats, firstEvaluation, scrape, query>>
    /\ UNCHANGED <<steam_ids, player_stats, successCount, now, externals>>

\* processBatch: await this.scraperService.delay(this.delay), then the next
\* iteration of the for loop
AwaitItemDelay(r) ==
    /\ runs[r].pc = "itemDelay"
    /\ Continue(r, ForLoop([runs[r] EXCEPT !.idx = runs[r].idx + 1,
                                            !.paced = "itemDelay"], isRunning))
    /\ UNCHANGED <<browser, pool, steam_id_rows, document, stats, firstEvaluation, scrape, query>>
    /\ UNCHANGED <<steam_ids, player_stats, scrape_logs, processedCount,
                   successCount, failureCount, now, faults, externals>>

\* startScraping: await this.scraperService.delay(1000), then the while
\* condition and the next processBatch
AwaitBatchDelay(r) ==
    /\ runs[r].pc = "batchDelay"
    /\ Continue(r, IF isRunning
                   THEN [runs[r] EXCEPT !.pc = "getPendingSteamIds",
                                        !.paced = "batchDelay"]
                   ELSE Returned(runs[r]))
    /\ UNCHANGED <<browser, pool, steam_id_rows, document, stats, firstEvaluation, scrape, query>>
    /\ UNCHANGED <<steam_ids, player_stats, scrape_logs, processedCount,
                   successCount, failureCount, now, faults, externals>>

\* one step of run r outside the catch block of processSingleSteamId
RunStep(r, F, pages) ==
    \/ AwaitGetPendingSteamIds(r, F)
    \/ AwaitLogScrapeStart(r, F)
    \/ AwaitSetProcessing(r, F)
    \/ AwaitScrapePlayerStats(r, pages)
    \/ AwaitSavePlayerStats(r, F)
    \/ AwaitSetCompleted(r, F)
    \/ AwaitLogScrapeSuccess(r, F)
    \/ AwaitSavePlayerStatsError(r, F)
    \/ AwaitSetFailed(r, F)
    \/ AwaitLogScrapeFailure(r, F)
    \/ AwaitItemDelay(r)
    \/ AwaitBatchDelay(r)

\* one step of run r inside the catch block, which only a rejected call or a
\* throwing scraper enters
CatchStep(r, F) ==
    \/ CatchSavePlayerStatsError(r, F)
    \/ CatchSetFailed(r, F)
    \/ CatchLogScrapeFailure(r, F)

----------------------------------------------------------------------------
(* The steps of DatabaseManager.execute and DatabaseManager.transaction *)

\* the awaits at which an operation has a connection of the pool
HoldingPcs == {"connection.execute", "beginTransaction", "query", "commit", "rollback"}

\* an operation that returned or threw
SettledPcs == {"returned", "rejected"}

\* a finally block that releases only when the operation did not throw
executeFinally_ReleaseOnSuccessOnly(held, rejected) ==
    IF rejected THEN held ELSE held - 1

\* finally { connection.release() }: on return and on throw alike
executeFinally(held, rejected) == held - 1

\* operation o becomes `op`, the pool holds `held` connections
PoolContinue(o, op, held) ==
    /\ pool' = [pool EXCEPT !.ops[o] = op, !.held = held]
    /\ UNCHANGED <<steam_ids, player_stats, scrape_logs, isRunning,
                   processedCount, successCount, failureCount, runs, now,
                   externals, browser, steam_id_rows, document, stats, firstEvaluation, scrape, query>>

\* a caller invokes execute(query, params) or transaction(queries)
PoolCall(o) ==
    /\ pool.ops[o].pc \in {"idle"} \cup SettledPcs
    /\ pool.calls < MaxCalls
    /\ \E op \in {[IdleOp EXCEPT !.pc = "getConnection", !.kind = "execute"]}
                  \cup {[IdleOp EXCEPT !.pc = "getConnection", !.kind = "transaction",
                                       !.queries = n, !.left = n]
                          : n \in 1..MaxQueries} :
         pool' = [pool EXCEPT !.ops[o] = op, !.calls = pool.calls + 1]
    /\ UNCHANGED <<steam_ids, player_stats, scrape_logs, isRunning,
                   processedCount, successCount, failureCount, runs, now,
                   faults, externals, browser, steam_id_rows, document, stats, firstEvaluation, scrape, query>>

\* const connection = await this.getConnection(), before the try: the pool
\* hands out a connection when one is free (waitForConnections), or rejects
AwaitGetConnection(o, F) ==
    /\ pool.ops[o].pc = "getConnection"
    /\ \E fault \in F :
         IF fault
         THEN /\ Fault
              /\ PoolContinue(o, [pool.ops[o] EXCEPT !.pc = "rejected",
                                                     !.failed = "getConnection",
                                                     !.thrown = "getConnection"],
                              pool.held)
         ELSE /\ UNCHANGED faults
              /\ pool.held < connectionLimit
              /\ PoolContinue(o,
                    [pool.ops[o] EXCEPT !.pc = IF pool.ops[o].kind = "execute"
                                              THEN "connection.execute"
                                              ELSE "beginTransaction"],
                    pool.held + 1)

\* execute: await connection.execute(query, params); return or rethrow; finally
AwaitConnectionExecute(o, F) ==
    /\ pool.ops[o].pc = "connection.execute"
    /\ \E fault \in F :
         /\ IF fault THEN Fault ELSE UNCHANGED faults
         /\ PoolContinue(o,
               IF fault
               THEN [pool.ops[o] EXCEPT !.pc = "rejected",
                                        !.failed = "connection.execute",
                                        !.thrown = "connection.execute"]
               ELSE [pool.ops[o] EXCEPT !.pc = "returned", !.visible = 1],
               executeFinally(pool.held, fault))

\* transaction: await connection.beginTransaction()
AwaitBeginTransaction(o, F) ==
    /\ pool.ops[o].pc = "beginTransaction"
    /\ \E fault \in F :
         /\ IF fault THEN Fault ELSE UNCHANGED faults
         /\ PoolContinue(o,
               IF fault
               THEN [pool.ops[o] EXCEPT !.pc = "rollback", !.failed = "beginTransaction"]
               ELSE [pool.ops[o] EXCEPT !.pc = "query"],
               pool.held)

\* transaction: await connection.execute(query, params) for the next query
AwaitQuery(o, F) ==
    /\ pool.ops[o].pc = "query"
    /\ \E fault \in F :
         /\ IF fault THEN Fault ELSE UNCHANGED faults
         /\ PoolContinue(o,
               IF fault
               THEN [pool.ops[o] EXCEPT !.pc = "rollback", !.failed = "query"]
               ELSE [pool.ops[o] EXCEPT
                       !.left = pool.ops[o].left - 1,
                       !.applied = pool.ops[o].applied + 1,
                       !.pc = IF pool.ops[o].left = 1 THEN "commit" ELSE "query"],
               pool.held)

\* transaction: await connection.commit(); return results; finally
AwaitCommit(o, F) ==
    /\ pool.ops[o].pc = "commit"
    /\ \E fault \in F :
         IF fault
         THEN /\ Fault
              /\ PoolContinue(o, [pool.ops[o] EXCEPT !.pc = "rollback",
                                                     !.failed = "commit"],
                              pool.held)
         ELSE /\ UNCHANGED faults
              /\ PoolContinue(o, [pool.ops[o] EXCEPT !.pc = "returned",
                                                     !.visible = pool.ops[o].applied,
                                                     !.applied = 0,
                                                     !.ended = "commit"],
                              executeFinally(pool.held, FALSE))

\* transaction, catch: await connection.rollback(); throw error; finally.
\* The rollback may reject as well: the operation then throws the rollback's
\* error in place of the caught one, and the connection goes back to the pool
\* with the transaction still open, or lost with what it had executed.
AwaitRollback(o, F) ==
    /\ pool.ops[o].pc = "rollback"
    /\ \E fault \in F, lost \in BOOLEAN :
         /\ IF fault THEN Fault ELSE UNCHANGED faults
         /\ fault \/ ~lost
         /\ PoolContinue(o,
               IF fault
               THEN [pool.ops[o] EXCEPT !.pc = "rejected", !.thrown = "rollback",
                                        !.applied = IF lost THEN 0 ELSE @]
               ELSE [pool.ops[o] EXCEPT !.pc = "rejected",
                                        !.thrown = pool.ops[o].failed,
                                        !.applied = 0,
                                        !.ended = "rollback"],
               executeFinally(pool.held, TRUE))

\* one step of operation o
PoolStep(o, F) ==
    \/ AwaitGetConnection(o, F)
    \/ AwaitConnectionExecute(o, F)
    \/ AwaitBeginTransaction(o, F)
    \/ AwaitQuery(o, F)
    \/ AwaitCommit(o, F)
    \/ AwaitRollback(o, F)

----------------------------------------------------------------------------
(* DatabaseService.addSteamId and addMultipleSteamIds on the rows of         *)
(* steam_ids: id INT AUTO_INCREMENT PRIMARY KEY, steam_id64 UNIQUE           *)

UpsertIds == 1..NumUpsertIds

\* the row an INSERT (steam_id64, priority) creates: status and the two
\* timestamps take their column defaults
NewRow(steamId64, priority) ==
    [steam_id64 |-> steamId64, status |-> "pending", priority |-> priority,
     created_at |-> now, updated_at |-> now]

\* an update list that also names the status column
InsertOnDuplicateKeyUpdate_ResetsStatus(rows, value) ==
    IF \E i \in DOMAIN rows : rows[i].steam_id64 = value[1]
    THEN [i \in DOMAIN rows |->
            IF rows[i].steam_id64 = value[1]
            THEN [rows[i] EXCEPT !.status = "pending", !.priority = value[2],
                                 !.updated_at = now]
            ELSE rows[i]]
    ELSE Append(rows, NewRow(value[1], value[2]))

\* INSERT INTO steam_ids (steam_id64, priority) VALUES (?, ?) ON DUPLICATE KEY
\* UPDATE priority = VALUES(priority), updated_at = CURRENT_TIMESTAMP, for one
\* value tuple: a row whose steam_id64 equals the tuple's is the duplicate
InsertOnDuplicateKeyUpdate(rows, value) ==
    IF \E i \in DOMAIN rows : rows[i].steam_id64 = value[1]
    THEN [i \in DOMAIN rows |->
            IF rows[i].steam_id64 = value[1]
            THEN [rows[i] EXCEPT !.priority = value[2], !.updated_at = now]
            ELSE rows[i]]
    ELSE Append(rows, NewRow(value[1], value[2]))

\* the value tuples of a multi-row INSERT, applied in their order
RECURSIVE InsertAll(_, _)
InsertAll(rows, values) ==
    IF values = <<>>
    THEN rows
    ELSE InsertAll(InsertOnDuplicateKeyUpdate(rows, Head(values)), Tail(values))

\* an element of the list given to addMultipleSteamIds: an identifier, or an
\* array [identifier, priority]
ListElements ==
    {[isArray |-> FALSE, id |-> i, priority |-> 0] : i \in UpsertIds}
      \cup {[isArray |-> TRUE, id |-> i, priority |-> p]
               : i \in UpsertIds, p \in Priorities}

RECURSIVE ListsUpTo(_)
ListsUpTo(n) ==
    IF n = 0
    THEN {<<>>}
    ELSE ListsUpTo(n - 1)
           \cup {Append(l, e) : l \in {k \in ListsUpTo(n - 1) : Len(k) = n - 1},
                                e \in ListElements}

\* steamIds.map(id => Array.isArray(id) ? id : [id, 1])
ValuesOf(steamIds) ==
    [k \in DOMAIN steamIds |->
        IF steamIds[k].isArray
        THEN <<steamIds[k].id, steamIds[k].priority>>
        ELSE <<steamIds[k].id, 1>>]

\* the statement executed (or rejected by the server) on the table
Executed(table, name, values, rejected) ==
    [rows |-> IF rejected THEN table.rows ELSE InsertAll(table.rows, values),
     statement |-> [name |-> name, values |-> values, rejected |-> rejected]]

\* DatabaseService.addSteamId(steamId64, priority = 1)
addSteamIdRow(table, steamId64, priority, rejected) ==
    Executed(table, "addSteamId", <<<<steamId64, priority>>>>, rejected)

\* DatabaseService.addMultipleSteamIds(steamIds): an empty list returns
\* before any statement
addMultipleSteamIds(table, steamIds, rejected) ==
    IF Len(steamIds) = 0
    THEN [table EXCEPT !.statement = [name |-> "addMultipleSteamIds",
                                      values |-> <<>>, rejected |-> FALSE]]
    ELSE Executed(table, "addMultipleSteamIds", ValuesOf(steamIds), rejected)

\* ScraperManager.addSteamIds(steamIds), Array.isArray(steamIds) false: one
\* identifier with the default priority; or DatabaseService.addSteamId called
\* with a priority
CallAddSteamId(F) ==
    /\ \E steamId64 \in UpsertIds, priority \in Priorities, fault \in F :
         /\ steam_id_rows' = addSteamIdRow(steam_id_rows, steamId64, priority, fault)
         /\ IF fault THEN Fault ELSE UNCHANGED faults
    /\ UNCHANGED <<steam_ids, player_stats, scrape_logs, isRunning,
                   processedCount, successCount, failureCount, runs, now,
                   externals, browser, pool, document, stats, firstEvaluation, scrape, query>>

\* ScraperManager.addSteamIds(steamIds) with an array (the console's add
\* command, the README's API usage)
CallAddMultipleSteamIds(F) ==
    /\ \E steamIds \in ListsUpTo(MaxList), fault \in F :
         /\ steam_id_rows' = addMultipleSteamIds(steam_id_rows, steamIds,
                                                 fault /\ Len(steamIds) > 0)
         /\ IF fault /\ Len(steamIds) > 0 THEN Fault ELSE UNCHANGED faults
    /\ UNCHANGED <<steam_ids, player_stats, scrape_logs, isRunning,
                   processedCount, successCount, failureCount, runs, now,
                   externals, browser, pool, document, stats, firstEvaluation, scrape, query>>

----------------------------------------------------------------------------
(* Text: a JavaScript string is the sequence of its characters *)

Digits == {"0", "1", "2", "3", "4", "5", "6", "7", "8", "9"}

UpperCase ==
    <<"A", "B", "C", "D", "E", "F", "G", "H", "I", "J", "K", "L", "M",
      "N", "O", "P", "Q", "R", "S", "T", "U", "V", "W", "X", "Y", "Z">>

LowerCase ==
    <<"a", "b", "c", "d", "e", "f", "g", "h", "i", "j", "k", "l", "m",
      "n", "o", "p", "q", "r", "s", "t", "u", "v", "w", "x", "y", "z">>

\* String.prototype.toLowerCase
toLowerCase(s) ==
    [i \in DOMAIN s |->
        IF \E k \in DOMAIN UpperCase : UpperCase[k] = s[i]
        THEN LowerCase[CHOOSE k \in DOMAIN UpperCase : UpperCase[k] = s[i]]
        ELSE s[i]]

\* String.prototype.toUpperCase
toUpperCase(s) ==
    [i \in DOMAIN s |->
        IF \E k \in DOMAIN LowerCase : LowerCase[k] = s[i]
        THEN UpperCase[CHOOSE k \in DOMAIN LowerCase : LowerCase[k] = s[i]]
        ELSE s[i]]

\* String.prototype.trim: white space off both ends
trim(s) ==
    LET inked == {i \in DOMAIN s : s[i] # " "}
    IN  IF inked = {}
        THEN <<>>
        ELSE SubSeq(s, CHOOSE i \in inked : \A j \in inked : i <= j,
                       CHOOSE i \in inked : \A j \in inked : i >= j)

\* String.prototype.includes
includes(s, sub) ==
    \E i \in 1..(Len(s) - Len(sub) + 1) : SubSeq(s, i, i + Len(sub) - 1) = sub

\* /^\d+$/
MatchesDigits(s) == Len(s) >= 1 /\ \A i \in DOMAIN s : s[i] \in Digits

\* /^\d{2,3}$/
MatchesTwoOrThreeDigits(s) == MatchesDigits(s) /\ Len(s) \in {2, 3}

\* /^\d+%$/
MatchesPercent(s) ==
    /\ Len(s) >= 2
    /\ s[Len(s)] = "%"
    /\ MatchesDigits(SubSeq(s, 1, Len(s) - 1))

\* /^\d+\.\d+$/
MatchesDecimal(s) ==
    \E k \in DOMAIN s :
      /\ s[k] = "."
      /\ MatchesDigits(SubSeq(s, 1, k - 1))
      /\ MatchesDigits(SubSeq(s, k + 1, Len(s)))

DigitValue(c) ==
    CASE c = "0" -> 0 [] c = "1" -> 1 [] c = "2" -> 2 [] c = "3" -> 3
      [] c = "4" -> 4 [] c = "5" -> 5 [] c = "6" -> 6 [] c = "7" -> 7
      [] c = "8" -> 8 [] c = "9" -> 9

\* parseInt of a text that matches /^\d+$/
RECURSIVE parseInt(_)
parseInt(s) ==
    IF s = <<>>
    THEN 0
    ELSE 10 * parseInt(SubSeq(s, 1, Len(s) - 1)) + DigitValue(s[Len(s)])

\* the digits of a fraction without its trailing zeros
RECURSIVE Fraction(_)
Fraction(s) ==
    IF s # <<>> /\ s[Len(s)] = "0" THEN Fraction(SubSeq(s, 1, Len(s) - 1)) ELSE s

\* parseFloat of a text that matches /^\d+\.\d+$/: the number, as its whole
\* part and the digits of its fraction
parseFloat(s) ==
    LET k == CHOOSE k \in DOMAIN s : s[k] = "."
    IN  [whole |-> parseInt(SubSeq(s, 1, k - 1)),
         fraction |-> Fraction(SubSeq(s, k + 1, Len(s)))]

----------------------------------------------------------------------------
(* The document of a player page: its elements in document order.  An       *)
(* element has a tag, its parent element (0: none) and the text that         *)
(* precedes its child elements.                                              *)

Element(tag, parent, text) == [tag |-> tag, parent |-> parent, text |-> text]

\* el.children, in document order
children(doc, el) == {c \in DOMAIN doc : doc[c].parent = el}

\* el.textContent: the text of the element and of its descendants, in
\* document order
RECURSIVE textContent(_, _)
RECURSIVE TextOfAll(_, _, _)
TextOfAll(doc, els, from) ==
    IF \A c \in els : c < from
    THEN <<>>
    ELSE LET c == CHOOSE c \in els : c >= from /\ \A d \in els : d >= from => c <= d
         IN  textContent(doc, c) \o TextOfAll(doc, els, c + 1)

textContent(doc, el) == doc[el].text \o TextOfAll(doc, children(doc, el), 1)

\* const getText = (element) => element?.textContent?.trim() || ''
getText(doc, el) == IF el = 0 THEN <<>> ELSE trim(textContent(doc, el))

\* el.parentElement (0: null)
parentElement(doc, el) == doc[el].parent

\* el.closest(tag): the element or its nearest ancestor with the tag (0: null)
RECURSIVE closest(_, _, _)
closest(doc, el, tag) ==
    IF el = 0 THEN 0
    ELSE IF doc[el].tag = tag THEN el
    ELSE closest(doc, doc[el].parent, tag)

\* el is a descendant of anc
RECURSIVE IsDescendant(_, _, _)
IsDescendant(doc, el, anc) ==
    /\ el # 0
    /\ doc[el].parent # 0
    /\ \/ doc[el].parent = anc
       \/ IsDescendant(doc, doc[el].parent, anc)

\* the first of a set of elements in document order (0: none)
First(els) == IF els = {} THEN 0 ELSE CHOOSE e \in els : \A d \in els : e <= d

\* el.querySelector('*'): the first descendant in document order (0: null)
FirstDescendant(doc, el) == First({d \in DOMAIN doc : IsDescendant(doc, d, el)})

\* document.querySelector over a list of tags (0: null)
querySelector(doc, tags) == First({e \in DOMAIN doc : doc[e].tag \in tags})

\* extractedStats.<field> = value
Assign(extractedStats, field, value) ==
    [f \in DOMAIN extractedStats \cup {field} |->
        IF f = field THEN value ELSE extractedStats[f]]

----------------------------------------------------------------------------
(* ScraperService.scrapePlayerStats: the function given to page.evaluate *)

\* the test for the label without the spelling "k/d"
DecimalField_KdOnly(label) ==
    IF includes(label, <<"k", "d">>) THEN "kd_ratio"
    ELSE IF includes(label, <<"h", "l", "t", "v">>) \/ includes(label, <<"r", "a", "t", "i", "n", "g">>) THEN "hltv_rating"
    ELSE ""

\* the field a decimal text takes from the label of its chart: '' for none
DecimalField(label) ==
    IF includes(label, <<"k", "/", "d">>) \/ includes(label, <<"k", "d">>) THEN "kd_ratio"
    ELSE IF includes(label, <<"h", "l", "t", "v">>) \/ includes(label, <<"r", "a", "t", "i", "n", "g">>) THEN "hltv_rating"
    ELSE ""

\* kdElements.forEach: one <text> element
DecimalRule(doc, el, extractedStats) ==
    LET text == getText(doc, el)
        svg == closest(doc, el, "svg")
        parent == IF svg = 0 THEN 0 ELSE parentElement(doc, svg)
    IN  IF MatchesDecimal(text) /\ parent # 0
        THEN LET label == toLowerCase(textContent(doc, FirstDescendant(doc, parent)))
             IN  IF DecimalField(label) = ""
                 THEN extractedStats
                 ELSE Assign(extractedStats, DecimalField(label), parseFloat(text))
        ELSE extractedStats

\* the field a percentage takes from the text of its parent: '' for none
PercentField(context) ==
    IF includes(context, <<"w", "i", "n">>) THEN "win_rate"
    ELSE IF includes(context, <<"h", "s">>) \/ includes(context, <<"h", "e", "a", "d", "s", "h", "o", "t">>)
    THEN "headshot_percentage"
    ELSE IF includes(context, <<"c", "l", "u", "t", "c", "h">>) THEN "clutch_success"
    ELSE IF includes(context, <<"e", "n", "t", "r", "y">>) THEN "entry_success"
    ELSE ""

\* the context in the case the page spells it
PercentContext_CaseSensitive(doc, el) ==
    IF parentElement(doc, el) = 0
    THEN <<>>
    ELSE textContent(doc, parentElement(doc, el))

\* el.parentElement?.textContent?.toLowerCase() || ''
PercentContext(doc, el) ==
    IF parentElement(doc, el) = 0
    THEN <<>>
    ELSE toLowerCase(textContent(doc, parentElement(doc, el)))

\* percentageElements.forEach: one element
PercentRule(doc, el, extractedStats) ==
    LET text == getText(doc, el)
    IN  IF MatchesPercent(text) /\ PercentField(PercentContext(doc, el)) # ""
        THEN Assign(extractedStats, PercentField(PercentContext(doc, el)), text)
        ELSE extractedStats

\* the thresholds of the numeric rules
HeadshotsBelow == 50000
MatchesBelow == 10000
RoundsAbove == 1000
DamageAbove == 100000

\* the chain without the tests that exclude the other keyword
IntegerField_NoExclusion(context, num) ==
    IF includes(context, <<"k", "i", "l", "l">>) THEN "kills"
    ELSE IF includes(context, <<"d", "e", "a", "t", "h">>) THEN "deaths"
    ELSE IF includes(context, <<"a", "s", "s", "i", "s", "t">>) THEN "assists"
    ELSE IF includes(context, <<"h", "e", "a", "d", "s", "h", "o", "t">>) /\ num < HeadshotsBelow THEN "headshots"
    ELSE IF includes(context, <<"p", "l", "a", "y", "e", "d">>) \/ includes(context, <<"m", "a", "t", "c", "h">>)
    THEN "matches_played"
    ELSE IF includes(context, <<"w", "o", "n">>) /\ num < MatchesBelow THEN "matches_won"
    ELSE IF includes(context, <<"l", "o", "s", "t">>) /\ num < MatchesBelow THEN "matches_lost"
    ELSE IF includes(context, <<"r", "o", "u", "n", "d">>) /\ num > RoundsAbove THEN "rounds_played"
    ELSE IF includes(context, <<"d", "a", "m", "a", "g", "e">>) /\ num > DamageAbove THEN "total_damage"
    ELSE ""

\* the field an integer takes from its context: '' for none
IntegerField(context, num) ==
    IF includes(context, <<"k", "i", "l", "l">>) /\ ~includes(context, <<"d", "e", "a", "t", "h">>) THEN "kills"
    ELSE IF includes(context, <<"d", "e", "a", "t", "h">>) /\ ~includes(context, <<"k", "i", "l", "l">>) THEN "deaths"
    ELSE IF includes(context, <<"a", "s", "s", "i", "s", "t">>) THEN "assists"
    ELSE IF includes(context, <<"h", "e", "a", "d", "s", "h", "o", "t">>) /\ num < HeadshotsBelow THEN "headshots"
    ELSE IF includes(context, <<"p", "l", "a", "y", "e", "d">>) \/ includes(context, <<"m", "a", "t", "c", "h">>)
    THEN "matches_played"
    ELSE IF includes(context, <<"w", "o", "n">>) /\ num < MatchesBelow THEN "matches_won"
    ELSE IF includes(context, <<"l", "o", "s", "t">>) /\ num < MatchesBelow THEN "matches_lost"
    ELSE IF includes(context, <<"r", "o", "u", "n", "d">>) /\ num > RoundsAbove THEN "rounds_played"
    ELSE IF includes(context, <<"d", "a", "m", "a", "g", "e">>) /\ num > DamageAbove THEN "total_damage"
    ELSE ""

\* (text + ' ' + parentText).toLowerCase()
IntegerContext(doc, el) ==
    toLowerCase(getText(doc, el) \o <<" ">> \o getText(doc, parentElement(doc, el)))

\* allElements.forEach: one element, the numeric rules and then the ADR rule
IntegerRule(doc, el, extractedStats) ==
    LET text == getText(doc, el)
        context == IntegerContext(doc, el)
        routed ==
          IF MatchesDigits(text) /\ parseInt(text) > 0
               /\ IntegerField(context, parseInt(text)) # ""
          THEN Assign(extractedStats, IntegerField(context, parseInt(text)),
                      parseInt(text))
          ELSE extractedStats
    IN  IF MatchesTwoOrThreeDigits(text) /\ includes(context, <<"a", "d", "r">>)
        THEN Assign(routed, "adr", parseInt(text))
        ELSE routed

\* NodeList.forEach over the elements from `el` on, in document order, for the
\* three rule families
RECURSIVE ForEachDecimal(_, _, _)
ForEachDecimal(doc, el, extractedStats) ==
    IF el > Len(doc) THEN extractedStats
    ELSE ForEachDecimal(doc, el + 1,
           IF doc[el].tag = "text"
           THEN DecimalRule(doc, el, extractedStats)
           ELSE extractedStats)

RECURSIVE ForEachPercent(_, _, _)
ForEachPercent(doc, el, extractedStats) ==
    IF el > Len(doc) THEN extractedStats
    ELSE ForEachPercent(doc, el + 1, PercentRule(doc, el, extractedStats))

RECURSIVE ForEachInteger(_, _, _)
ForEachInteger(doc, el, extractedStats) ==
    IF el > Len(doc) THEN extractedStats
    ELSE ForEachInteger(doc, el + 1, IntegerRule(doc, el, extractedStats))

\* const statLabels, in the order of Object.keys
statLabels ==
    << [label |-> <<"P", "L", "A", "Y", "E", "D">>, field |-> "matches_played"],
       [label |-> <<"K", "I", "L", "L", "S">>, field |-> "kills"],
       [label |-> <<"D", "A", "M", "A", "G", "E">>, field |-> "total_damage"],
       [label |-> <<"W", "O", "N">>, field |-> "matches_won"],
       [label |-> <<"D", "E", "A", "T", "H", "S">>, field |-> "deaths"],
       [label |-> <<"R", "O", "U", "N", "D", "S">>, field |-> "rounds_played"],
       [label |-> <<"L", "O", "S", "T">>, field |-> "matches_lost"],
       [label |-> <<"A", "S", "S", "I", "S", "T", "S">>, field |-> "assists"],
       [label |-> <<"T", "I", "E", "D">>, field |-> "matches_tied"],
       [label |-> <<"H", "E", "A", "D", "S", "H", "O", "T", "S">>, field |-> "headshots"] >>

\* Array.from(document.querySelectorAll('*')).find(el =>
\*   getText(el).toUpperCase() === label) (0: undefined)
labelElement(doc, label) ==
    First({el \in DOMAIN doc : toUpperCase(getText(doc, el)) = label})

\* Array.from(labelElement.parentElement?.children || [])
siblings(doc, el) ==
    LET among == IF parentElement(doc, el) = 0
                 THEN {}
                 ELSE children(doc, parentElement(doc, el))
    IN  [k \in 1..Cardinality(among) |->
           CHOOSE c \in among : Cardinality({d \in among : d < c}) = k - 1]

\* the for loop over the window of siblings: the first whose text is an
\* integer (0: none); positions count from 1
WindowValue(doc, el, label) ==
    LET sibs == siblings(doc, el)
        index == IF \E k \in DOMAIN sibs : sibs[k] = el
                 THEN CHOOSE k \in DOMAIN sibs : sibs[k] = el
                 ELSE 0
        window == {k \in DOMAIN sibs :
                     /\ k >= index - 2 /\ k <= index + 2
                     /\ MatchesDigits(getText(doc, sibs[k]))
                     /\ getText(doc, sibs[k]) # label}
    IN  IF index = 0 THEN 0 ELSE First({sibs[k] : k \in window})

\* extractedStats[statLabels[label]] = value
LabelAssign(extractedStats, field, value) == Assign(extractedStats, field, value)

\* Object.keys(statLabels).forEach: the labels from position k on
RECURSIVE ForEachLabel(_, _, _)
ForEachLabel(doc, k, extractedStats) ==
    IF k > Len(statLabels) THEN extractedStats
    ELSE LET el == labelElement(doc, statLabels[k].label)
             found == IF el = 0 THEN 0 ELSE WindowValue(doc, el, statLabels[k].label)
         IN  ForEachLabel(doc, k + 1,
               IF found = 0
               THEN extractedStats
               ELSE LabelAssign(extractedStats, statLabels[k].field,
                                parseInt(getText(doc, found))))

\* title.textContent.split('-')[0]
BeforeDash(s) ==
    IF \E k \in DOMAIN s : s[k] = "-"
    THEN SubSeq(s, 1, (CHOOSE k \in DOMAIN s : s[k] = "-" /\ \A j \in 1..(k - 1) : s[j] # "-") - 1)
    ELSE s

\* the two places looked at in the other order
playerName_TitleFirst(doc) ==
    LET heading == querySelector(doc, {"h1"})
        title == querySelector(doc, {"title"})
        fromHeading == IF heading = 0 THEN <<>> ELSE trim(textContent(doc, heading))
        fromTitle == IF title = 0 THEN <<>>
                     ELSE trim(BeforeDash(textContent(doc, title)))
        name == IF fromTitle # <<>> THEN fromTitle ELSE fromHeading
    IN  IF name = <<>> THEN <<"U", "n", "k", "n", "o", "w", "n">> ELSE name

\* document.querySelector('h1, .player-name, .username')?.textContent?.trim()
\*   || document.querySelector('title')?.textContent?.split('-')[0]?.trim(),
\* then playerName || 'Unknown'
playerName(doc) ==
    LET heading == querySelector(doc, {"h1"})
        title == querySelector(doc, {"title"})
        fromHeading == IF heading = 0 THEN <<>> ELSE trim(textContent(doc, heading))
        fromTitle == IF title = 0 THEN <<>>
                     ELSE trim(BeforeDash(textContent(doc, title)))
        name == IF fromHeading # <<>> THEN fromHeading ELSE fromTitle
    IN  IF name = <<>> THEN <<"U", "n", "k", "n", "o", "w", "n">> ELSE name

\* an extractedStats that outlives the call
NewExtractedStats_Kept(previous) == previous

\* const extractedStats = {}
NewExtractedStats(previous) == EmptyStats

\* page.evaluate(() => { ... }): the rule families in their order, over the
\* document; `previous` is what the last call left
evaluate(doc, previous) ==
    [player_name |-> playerName(doc),
     stats |-> ForEachLabel(doc, 1,
                 ForEachInteger(doc, 1,
                   ForEachPercent(doc, 1,
                     ForEachDecimal(doc, 1, NewExtractedStats(previous)))))]

----------------------------------------------------------------------------
(* The documents the model evaluates *)

\* a block of a page: a <div> with its leading text and a <span> per leaf
Stat(text, leaves) == [kind |-> "stat", text |-> text, leaves |-> leaves]

\* a chart: a <div> holding a <span> with the label and an <svg> whose <text>
\* holds the value; the label comes first or last
Chart(label, value, labelFirst) ==
    [kind |-> "chart", text |-> label, leaves |-> <<value>>, labelFirst |-> labelFirst]

\* the elements of one block, whose first element is element `at` of the
\* document and whose parent is `parent`
Block(at, parent, block) ==
    IF block.kind = "stat"
    THEN <<Element("div", parent, block.text)>>
           \o [k \in 1..Len(block.leaves) |-> Element("span", at, block.leaves[k])]
    ELSE IF block.labelFirst
    THEN <<Element("div", parent, <<>>), Element("span", at, block.text),
           Element("svg", at, <<>>), Element("text", at + 2, block.leaves[1])>>
    ELSE <<Element("div", parent, <<>>), Element("svg", at, <<>>),
           Element("text", at + 1, block.leaves[1]), Element("span", at, block.text)>>

RECURSIVE Blocks(_, _, _)
Blocks(at, parent, blocks) ==
    IF blocks = <<>>
    THEN <<>>
    ELSE LET first == Block(at, parent, Head(blocks))
         IN  first \o Blocks(at + Len(first), parent, Tail(blocks))

\* <html><head><title>..</title></head><body> [<h1>..</h1>] blocks </body></html>
Page(title, heading, blocks) ==
    <<Element("html", 0, <<>>), Element("head", 1, <<>>),
      Element("title", 2, title), Element("body", 1, <<>>)>>
      \o (IF heading = <<>> THEN <<>> ELSE <<Element("h1", 4, heading)>>)
      \o Blocks(IF heading = <<>> THEN 5 ELSE 6, 4, blocks)

PageTitle == <<"s", "1", "m", "p", "l", "e", " ", "-", " ", "C", "S", "2", " ", "S", "t", "a", "t", "s">>

\* the words in front of a number
StatTexts ==
    {<<"K", "i", "l", "l", "s", ":", " ">>,
     <<"D", "e", "a", "t", "h", "s", " ">>,
     <<"R", "o", "u", "n", "d", "s", " ", "P", "l", "a", "y", "e", "d", " ">>,
     <<"A", "s", "s", "i", "s", "t", "s", " ">>,
     <<"H", "e", "a", "d", "s", "h", "o", "t", "s", " ">>,
     <<"M", "a", "t", "c", "h", "e", "s", " ">>,
     <<"W", "o", "n", " ">>,
     <<"L", "o", "s", "t", " ">>,
     <<"R", "o", "u", "n", "d", "s", " ">>,
     <<"D", "a", "m", "a", "g", "e", " ">>,
     <<"A", "D", "R", " ">>,
     <<"K", "i", "l", "l", "s", " ", "D", "e", "a", "t", "h", "s", " ">>,
     <<"R", "a", "n", "k", " ">>,
     <<"A", "s", "s", "i", "s", "t", "s", " ", "A", "D", "R", " ">>}

\* the numbers of a page, on both sides of every threshold
IntegerTexts ==
    {<<"0">>,
     <<"7">>,
     <<"8", "5">>,
     <<"4", "8", "2", "1">>,
     <<"3", "1", "9", "0">>,
     <<"1", "8", "4", "5", "2">>,
     <<"6", "0", "0", "0", "0">>,
     <<"2", "0", "0", "0", "0", "0">>}

\* fewer of them, for pages with two numbers
FewIntegerTexts == {<<"7">>,
     <<"8", "5">>,
     <<"4", "8", "2", "1">>,
     <<"1", "8", "4", "5", "2">>}

PercentTexts ==
    {<<"W", "i", "n", " ", "R", "a", "t", "e", " ">>,
     <<"H", "S", " ">>,
     <<"H", "e", "a", "d", "s", "h", "o", "t", " ", "%", " ">>,
     <<"C", "l", "u", "t", "c", "h", " ">>,
     <<"E", "n", "t", "r", "y", " ">>,
     <<"W", "I", "N", " ", "H", "S", " ">>,
     <<"R", "a", "n", "k", " ">>}

Percentages == {<<"4", "2", "%">>,
     <<"7", "%">>}

ChartLabels == {<<"K", "/", "D">>,
     <<"K", "D", " ", "R", "a", "t", "i", "o">>,
     <<"H", "L", "T", "V", " ", "R", "a", "t", "i", "n", "g">>,
     <<"R", "a", "n", "k">>}

Decimals == {<<"1", ".", "3", "4">>,
     <<"0", ".", "9", "8">>}

\* the texts of the siblings around a label
SiblingTexts == {<<"K", "I", "L", "L", "S">>,
     <<"T", "i", "e", "d">>,
     <<"5">>,
     <<"9">>,
     <<"x">>}

\* the sequences over `texts` of length 1..n
RECURSIVE SeqsUpTo(_, _)
SeqsUpTo(texts, n) ==
    IF n <= 1
    THEN {<<t>> : t \in texts}
    ELSE SeqsUpTo(texts, n - 1)
           \cup {Append(s, t) : s \in {q \in SeqsUpTo(texts, n - 1) : Len(q) = n - 1},
                                t \in texts}

\* the page of the disambiguation scenario: "Kills: 4821", "Deaths 3190" and
\* "Rounds Played 18452", each number in an element of its own
DisambiguationBlocks ==
    <<Stat(<<"K", "i", "l", "l", "s", ":", " ">>, <<<<"4", "8", "2", "1">>>>), Stat(<<"D", "e", "a", "t", "h", "s", " ">>, <<<<"3", "1", "9", "0">>>>),
      Stat(<<"R", "o", "u", "n", "d", "s", " ", "P", "l", "a", "y", "e", "d", " ">>, <<<<"1", "8", "4", "5", "2">>>>)>>

DisambiguationPage == Page(PageTitle, <<>>, DisambiguationBlocks)

\* one number in one context
IntegerPages ==
    {Page(PageTitle, <<>>, <<Stat(t, <<n>>)>>) : t \in StatTexts, n \in IntegerTexts}

\* two numbers in the same context, in two blocks
TwoIntegerPages ==
    {Page(PageTitle, <<>>, <<Stat(t, <<n>>), Stat(t, <<m>>)>>)
       : t \in StatTexts, n \in FewIntegerTexts, m \in FewIntegerTexts}

\* the blocks of the disambiguation scenario in every order
DisambiguationPages ==
    {Page(PageTitle, <<>>, <<DisambiguationBlocks[i], DisambiguationBlocks[j],
                            DisambiguationBlocks[k]>>)
       : <<i, j, k>> \in {p \in (1..3) \X (1..3) \X (1..3) :
                            p[1] # p[2] /\ p[1] # p[3] /\ p[2] # p[3]}}

\* one or two percentages, each in a context
PercentPages ==
    {Page(PageTitle, <<>>, <<Stat(t, <<n>>)>>) : t \in PercentTexts, n \in Percentages}
      \cup {Page(PageTitle, <<>>, <<Stat(t, <<n>>), Stat(u, <<m>>)>>)
              : t \in PercentTexts, u \in PercentTexts,
                n \in Percentages, m \in Percentages}

\* one or two charts
ChartPages ==
    {Page(PageTitle, <<>>, <<Chart(l, d, f)>>)
       : l \in ChartLabels, d \in Decimals, f \in BOOLEAN}
      \cup {Page(PageTitle, <<>>, <<Chart(l, d, TRUE), Chart(k, e, TRUE)>>)
              : l \in ChartLabels, k \in ChartLabels, d \in Decimals, e \in Decimals}

\* a row of siblings among which a label may stand, alone or after a block that
\* the numeric rules classify
LabelPages ==
    {Page(PageTitle, <<>>, <<Stat(<<>>, s)>>) : s \in SeqsUpTo(SiblingTexts, MaxSiblings)}
      \cup {Page(PageTitle, <<>>, <<Stat(<<"K", "i", "l", "l", "s", ":", " ">>, <<<<"4", "8", "2", "1">>>>), Stat(<<>>, s)>>)
              : s \in SeqsUpTo(SiblingTexts, MaxSiblings)}

\* the places a player name is taken from
NamePages ==
    {Page(t, h, <<Stat(<<"K", "i", "l", "l", "s", ":", " ">>, <<<<"4", "8", "2", "1">>>>)>>)
       : t \in {<<>>, <<"s", "1", "m", "p", "l", "e">>, <<"s", "1", "m", "p", "l", "e", " ", "-", " ", "C", "S", "2", " ", "S", "t", "a", "t", "s">>, <<"-", " ", "C", "S", "2", " ", "S", "t", "a", "t", "s">>},
         h \in {<<>>, <<" ">>, <<" ", "Z", "y", "w", "O", "o", " ">>}}

ExtractPages ==
    IntegerPages \cup TwoIntegerPages \cup DisambiguationPages \cup PercentPages
      \cup ChartPages \cup LabelPages \cup NamePages

----------------------------------------------------------------------------
(* ScraperService.scrapePlayerStats: the page and its evaluation *)

\* the first evaluation of a behaviour is kept, with whether another document
\* was evaluated since (between) and whether the first document was evaluated
\* again after that (again)
Evaluated(doc, result) ==
    IF firstEvaluation = NoEvaluation
    THEN [document |-> doc, result |-> result, between |-> FALSE, again |-> FALSE]
    ELSE IF doc # firstEvaluation.document
    THEN [firstEvaluation EXCEPT !.between = TRUE]
    ELSE [firstEvaluation EXCEPT !.again = @ \/ firstEvaluation.between]

\* const stats = await page.evaluate(...)
Evaluate ==
    /\ document # NoDocument
    /\ stats' = evaluate(document, stats)
    /\ firstEvaluation' = Evaluated(document, stats')
    /\ UNCHANGED <<scrape, query>>
    /\ UNCHANGED <<steam_ids, player_stats, scrape_logs, isRunning,
                   processedCount, successCount, failureCount, runs, now,
                   faults, externals, browser, pool, steam_id_rows, document>>

\* page = await this.browser.newPage(); await page.goto(url): the page of the
\* next call holds one of `pages`
Goto(pages) ==
    /\ document' \in pages
    /\ UNCHANGED <<steam_ids, player_stats, scrape_logs, isRunning,
                   processedCount, successCount, failureCount, runs, now,
                   faults, externals, browser, pool, steam_id_rows, stats,
                   firstEvaluation, scrape, query>>

----------------------------------------------------------------------------
(* Specifications *)

\* an error page, a page with no stat and a page with one stat
FewPages == Pages({"Unknown"}, {EmptyStats, [f \in {"kd_ratio"} |-> 1]})

\* a page with no stat and a page with one stat
TwoPages == FewPages \ Pages({}, {})

Init == InitQueue(SteamIds, {1}, {1}, 1)

\* One run loop at a time: any interleaving of start and stop with the steps of
\* the run, any database call rejecting, the scraper throwing.
Next ==
    \/ startScraping(FALSE)
    \/ stopScraping
    \/ \E r \in RunIds :
         \/ RunStep(r, FaultChoices(MaxFaults), TwoPages \cup {ThrownPage})
         \/ CatchStep(r, FaultChoices(MaxFaults))

Spec == Init /\ [][Next]_vars

InitOverlap == InitQueue(OverlapIds, {1}, {1}, 1)

\* Run loops may overlap: start may follow stop while the stopped invocation
\* is still suspended.
NextOverlap ==
    \/ startScraping(TRUE)
    \/ stopScraping
    \/ \E r \in RunIds :
         \/ RunStep(r, FaultChoices(MaxOverlapFaults), TwoPages)
         \/ CatchStep(r, FaultChoices(MaxOverlapFaults))

SpecOverlap == InitOverlap /\ [][NextOverlap]_vars

\* Any priorities and creation times in the queue, identifiers added and reset
\* while the run loop works; no call rejects.
InitAnyQueue ==
    \E ids \in SUBSET SteamIds : InitQueue(ids, Priorities, 1..MaxTime, MaxTime)

NextQueue ==
    \/ startScraping(FALSE)
    \/ AddSteamId
    \/ resetFailedIds
    \/ ResetSteamIdStatus
    \/ \E r \in RunIds : RunStep(r, {FALSE}, TwoPages)

SpecQueue == InitAnyQueue /\ [][NextQueue]_vars

\* the pages of the data specification: an error page and, under two player
\* names, every mapping of a decimal and a percentage column
DataPages == Pages({"Unknown", "s1mple"}, StatMappings({"kd_ratio", "win_rate"}))

\* The run loop over pages of every sampled content; no call rejects.
NextData ==
    \/ startScraping(FALSE)
    \/ \E r \in RunIds : RunStep(r, {FALSE}, DataPages)

SpecData == Init /\ [][NextData]_vars

\* One run loop at a time, database calls rejecting, the scraper throwing, and
\* the process ending by the exit command or by a signal.
NextExit ==
    \/ startScraping(FALSE)
    \/ stopScraping
    \/ exit
    \/ signal
    \/ \E r \in RunIds :
         \/ RunStep(r, FaultChoices(MaxRecordFaults), TwoPages \cup {ThrownPage})
         \/ CatchStep(r, FaultChoices(MaxRecordFaults))

SpecExit == Init /\ [][NextExit]_vars

\* The operations of DatabaseManager, called in any order and overlapping, any
\* driver call rejecting.
NextPool ==
    \E o \in OpIds :
      \/ PoolCall(o)
      \/ PoolStep(o, FaultChoices(MaxPoolFaults))

SpecPool == Init /\ [][NextPool]_vars

\* what an earlier successful attempt extracted for an identifier
EarlierData(steamId64) ==
    [steam_id64 |-> steamId64, player_name |-> "s1mple", profile_url |-> steamId64,
     stats |-> [f \in {"kd_ratio", "win_rate"} |-> 1]]

\* The database as earlier runs and a reset left it: every identifier pending
\* again, any of them with the player_stats row of its earlier successful
\* attempt.
InitRecords ==
    /\ now = 1
    /\ steam_ids = [i \in SteamIds |->
                      [status |-> "pending", priority |-> 1,
                       created_at |-> 1, updated_at |-> 1]]
    /\ \E had \in SUBSET SteamIds :
         player_stats =
           [i \in had |->
              savePlayerStats([j \in {} |-> NULL], i, EarlierData(i))[i]]
    /\ scrape_logs = <<>>
    /\ isRunning = FALSE
    /\ processedCount = 0
    /\ successCount = 0
    /\ failureCount = 0
    /\ runs = [r \in RunIds |-> IdleRun]
    /\ faults = 0
    /\ externals = 0
    /\ browser = LaunchedBrowser
    /\ pool = NoPool
    /\ steam_id_rows = EmptyTable
    /\ document = NoDocument
    /\ stats = NotEvaluated
    /\ firstEvaluation = NoEvaluation
    /\ scrape = NoScrape
    /\ query = NoQuery

\* One run loop at a time over such a database: any database call rejecting,
\* the scraper throwing.
NextRecords ==
    \/ startScraping(FALSE)
    \/ \E r \in RunIds :
         \/ RunStep(r, FaultChoices(MaxRecordFaults), TwoPages \cup {ThrownPage})
         \/ CatchStep(r, FaultChoices(MaxRecordFaults))

SpecRecords == InitRecords /\ [][NextRecords]_vars

\* the rows of steam_ids earlier adds and runs may have left for an identifier
RowsOf(steamId64) ==
    {[steam_id64 |-> steamId64, status |-> st, priority |-> p,
      created_at |-> c, updated_at |-> c]
       : st \in {"pending", "processing", "completed", "failed"},
         p \in Priorities, c \in 1..MaxTime}

\* tables of at most one row per identifier, in either insertion order
TablesOf(ids) ==
    {<<>>}
      \cup UNION {{<<a>> : a \in RowsOf(i)} : i \in ids}
      \cup UNION {{<<a, b>> : a \in RowsOf(i), b \in RowsOf(j)}
                    : <<i, j>> \in {q \in ids \X ids : q[1] # q[2]}}

\* The table as earlier adds and runs left it, rows in any status; no run loop
\* is working.
InitUpsert ==
    /\ steam_id_rows \in {[rows |-> t, statement |-> NoStatement] : t \in TablesOf(UpsertIds)}
    /\ steam_ids = [i \in {} |-> NULL]
    /\ player_stats = [i \in {} |-> NULL]
    /\ scrape_logs = <<>>
    /\ isRunning = FALSE
    /\ processedCount = 0
    /\ successCount = 0
    /\ failureCount = 0
    /\ runs = [r \in RunIds |-> IdleRun]
    /\ now = MaxTime
    /\ faults = 0
    /\ externals = 0
    /\ browser = LaunchedBrowser
    /\ pool = NoPool
    /\ document = NoDocument
    /\ stats = NotEvaluated
    /\ firstEvaluation = NoEvaluation
    /\ scrape = NoScrape
    /\ query = NoQuery

\* addSteamId and addMultipleSteamIds called in any order; the server may reject
\* a statement
NextUpsert ==
    \/ CallAddSteamId(FaultChoices(MaxUpsertFaults))
    \/ CallAddMultipleSteamIds(FaultChoices(MaxUpsertFaults))

SpecUpsert == InitUpsert /\ [][NextUpsert]_vars

\* One run loop at a time with the reset command given at any moment, between
\* any two awaits of the loop; no call rejects.
NextReset ==
    \/ startScraping(FALSE)
    \/ resetFailedIds
    \/ \E r \in RunIds : RunStep(r, {FALSE}, TwoPages)

SpecReset == Init /\ [][NextReset]_vars

\* a page is open, nothing evaluated yet
InitPage(pages) ==
    /\ document \in pages
    /\ stats = NotEvaluated
    /\ firstEvaluation = NoEvaluation
    /\ scrape = NoScrape
    /\ query = NoQuery
    /\ steam_id_rows = EmptyTable
    /\ steam_ids = [i \in {} |-> NULL]
    /\ player_stats = [i \in {} |-> NULL]
    /\ scrape_logs = <<>>
    /\ isRunning = FALSE
    /\ processedCount = 0
    /\ successCount = 0
    /\ failureCount = 0
    /\ runs = [r \in RunIds |-> IdleRun]
    /\ now = 1
    /\ faults = 0
    /\ externals = 0
    /\ browser = LaunchedBrowser
    /\ pool = NoPool

\* the string a sequence of characters spells
RECURSIVE StringOf(_)
StringOf(s) == IF s = <<>> THEN "" ELSE s[1] \o StringOf(Tail(s))

\* a JavaScript number with a fraction as a DECIMAL(4,2) column holds it: in
\* hundredths, rounded
ToDecimal(v) ==
    LET digit(n) == IF n <= Len(v.fraction) THEN DigitValue(v.fraction[n]) ELSE 0
    IN  v.whole * 100 + digit(1) * 10 + digit(2) + (IF digit(3) >= 5 THEN 1 ELSE 0)

\* the fields page.evaluate sets with parseFloat
DecimalFields == {"kd_ratio", "hltv_rating"}

\* what page.evaluate returned, in the form of the sampled pages: text as a
\* string, a decimal in hundredths, an integer as it is
Returns(evaluated) ==
    [error |-> "",
     player_name |-> StringOf(evaluated.player_name),
     stats |-> [f \in DOMAIN evaluated.stats |->
                  IF f \in PercentFields THEN StringOf(evaluated.stats[f])
                  ELSE IF f \in DecimalFields THEN ToDecimal(evaluated.stats[f])
                  ELSE evaluated.stats[f]]]

\* the document of the end-to-end scenario: 1.34 in a chart labelled K/D and
\* 42% in a block whose text is "Headshot % "
ScenarioDocument(title, heading) ==
    Page(title, heading,
         <<Chart(<<"K", "/", "D">>, <<"1", ".", "3", "4">>, TRUE),
           Stat(<<"H", "e", "a", "d", "s", "h", "o", "t", " ", "%", " ">>, <<<<"4", "2", "%">>>>)>>)

\* a player page without a single stat
BareDocument == Page(PageTitle, <<>>, <<>>)

\* the document the site serves for an identifier: the scenario's for the
\* first two, under a heading and under the title alone
Site(steamId64) ==
    IF steamId64 = 1 THEN ScenarioDocument(PageTitle, <<>>)
    ELSE IF steamId64 = 2 THEN ScenarioDocument(<<>>, <<"Z", "y", "w", "O", "o">>)
    ELSE IF steamId64 = 3 THEN BareDocument
    ELSE DisambiguationPage

\* try: await this.scraperService.scrapePlayerStats(steamId64), the page being
\* the document the site serves for the identifier
AwaitScrapeDocument(r) ==
    /\ runs[r].pc = "scrapePlayerStats"
    /\ document' = Site(Current(r))
    /\ stats' = evaluate(document', stats)
    /\ firstEvaluation' = Evaluated(document', stats')
    /\ UNCHANGED <<scrape, query>>
    /\ \E executionTime \in Durations :
         LET result == scrapePlayerStats(Current(r), Returns(stats'), executionTime)
         IN  Continue(r, [runs[r] EXCEPT
                            !.result = result,
                            !.paced = "fetched",
                            !.pc = IF result.success
                                   THEN "savePlayerStats"
                                   ELSE "savePlayerStatsError"])
    /\ browser' = EnsureBrowser(browser)
    /\ UNCHANGED <<pool, steam_id_rows>>
    /\ UNCHANGED <<steam_ids, player_stats, scrape_logs, processedCount,
                   successCount, failureCount, now, faults, externals>>

InitEndToEnd == InitQueue(SteamIds, Priorities, {1}, 1)

\* The run loop with the extraction: every scrape evaluates the document of
\* its identifier; no call rejects.
NextEndToEnd ==
    \/ startScraping(FALSE)
    \/ \E r \in RunIds :
         \/ AwaitGetPendingSteamIds(r, {FALSE})
         \/ AwaitLogScrapeStart(r, {FALSE})
         \/ AwaitSetProcessing(r, {FALSE})
         \/ AwaitScrapeDocument(r)
         \/ AwaitSavePlayerStats(r, {FALSE})
         \/ AwaitSetCompleted(r, {FALSE})
         \/ AwaitLogScrapeSuccess(r, {FALSE})
         \/ AwaitSavePlayerStatsError(r, {FALSE})
         \/ AwaitSetFailed(r, {FALSE})
         \/ AwaitLogScrapeFailure(r, {FALSE})
         \/ AwaitItemDelay(r)
         \/ AwaitBatchDelay(r)

SpecEndToEnd == InitEndToEnd /\ [][NextEndToEnd]_vars

----------------------------------------------------------------------------
(* ScraperService.scrapePlayerStats, one await at a time *)

\* calls of scrapePlayerStats in one behaviour
MaxScrapes == 2

\* the messages of the faults scrapePlayerStats catches
TimeoutMessage == "Navigation timeout of 30000 ms exceeded"
ProtocolErrorMessage == "Protocol error: Target closed"
StatsNotFoundMessage == "Stats elements not found - player might not have CS2 data"

\* the faults raised inside the try block: an await that rejects, the
\* response that is not OK, the two waits that both time out, the empty mapping
TryFaults ==
    {"newPage", "setUserAgent", "setViewport", "goto", "response",
     "waitForSelector", "evaluate", "mapping"}

\* the faults of navigation, waiting and extraction
ScrapeFaults == {"goto", "response", "waitForSelector", "evaluate", "mapping"}

\* what page.evaluate resolves to in SpecScrape
ScrapeMappings == StatMappings({"kills"})

\* finally without the close: the call returns with its page as it is
scrapeFinally_NoClose(call) == [call EXCEPT !.pc = "returned"]

\* finally { if (page) { await page.close(); } }
scrapeFinally(call) ==
    IF call.page = "open"
    THEN [call EXCEPT !.pc = "close"]
    ELSE [call EXCEPT !.pc = "returned"]

\* catch (error): return { success: false, error: error.message,
\* executionTime, statsCount: 0 }, then the finally block
scrapeCatch(call, fault, message, executionTime) ==
    scrapeFinally([call EXCEPT
        !.fault = fault,
        !.error = message,
        !.result = scrapePlayerStats(call.steamId64,
                                     [error |-> message, player_name |-> "Unknown",
                                      stats |-> EmptyStats],
                                     executionTime)])

\* scrapePlayerStats(steamId64) is called: up to its first await
CallScrapePlayerStats ==
    /\ scrape.pc \in {"idle", "returned", "thrown"}
    /\ scrape.calls < MaxScrapes
    /\ \E steamId64 \in SteamIds :
         scrape' = [NoScrape EXCEPT
                      !.steamId64 = steamId64,
                      !.calls = scrape.calls + 1,
                      !.pc = IF BrowserOpen(browser) THEN "newPage" ELSE "initialize"]
    /\ UNCHANGED <<steam_ids, player_stats, scrape_logs, isRunning, processedCount,
                   successCount, failureCount, runs, now, faults, externals,
                   browser, pool, steam_id_rows, document, stats, firstEvaluation, query>>

\* if (!this.browser) await this.initialize(): before the try block, so that
\* the rejection of puppeteer.launch leaves the call
AwaitInitialize ==
    /\ scrape.pc = "initialize"
    /\ \E rejected \in BOOLEAN :
         IF rejected
         THEN /\ scrape' = [scrape EXCEPT !.pc = "thrown", !.fault = "initialize",
                                          !.error = BrowserErrorMessage]
              /\ UNCHANGED browser
         ELSE /\ scrape' = [scrape EXCEPT !.pc = "newPage"]
              /\ browser' = EnsureBrowser(browser)
    /\ UNCHANGED <<steam_ids, player_stats, scrape_logs, isRunning, processedCount,
                   successCount, failureCount, runs, now, faults, externals,
                   pool, steam_id_rows, document, stats, firstEvaluation, query>>

\* page = await this.browser.newPage(): `page` stays undefined when it rejects
AwaitNewPage ==
    /\ scrape.pc = "newPage"
    /\ \E rejected \in BOOLEAN, executionTime \in Durations :
         scrape' = IF rejected
                   THEN scrapeCatch(scrape, "newPage", ProtocolErrorMessage, executionTime)
                   ELSE [scrape EXCEPT !.page = "open", !.pc = "setUserAgent"]
    /\ UNCHANGED <<steam_ids, player_stats, scrape_logs, isRunning, processedCount,
                   successCount, failureCount, runs, now, faults, externals,
                   browser, pool, steam_id_rows, document, stats, firstEvaluation, query>>

\* await page.setUserAgent(...); await page.setViewport(...)
AwaitConfigure ==
    /\ scrape.pc \in {"setUserAgent", "setViewport"}
    /\ \E rejected \in BOOLEAN, executionTime \in Durations :
         scrape' = IF rejected
                   THEN scrapeCatch(scrape, scrape.pc, ProtocolErrorMessage, executionTime)
                   ELSE [scrape EXCEPT !.pc = IF scrape.pc = "setUserAgent"
                                              THEN "setViewport" ELSE "goto"]
    /\ UNCHANGED <<steam_ids, player_stats, scrape_logs, isRunning, processedCount,
                   successCount, failureCount, runs, now, faults, externals,
                   browser, pool, steam_id_rows, document, stats, firstEvaluation, query>>

\* const response = await page.goto(url, ...); if (!response.ok()) throw
AwaitPageGoto ==
    /\ scrape.pc = "goto"
    /\ \E outcome \in {"ok", "notOk", "timeout"}, executionTime \in Durations :
         scrape' = IF outcome = "timeout"
                   THEN scrapeCatch(scrape, "goto", TimeoutMessage, executionTime)
                   ELSE IF outcome = "notOk"
                   THEN scrapeCatch(scrape, "response", HttpErrorMessage, executionTime)
                   ELSE [scrape EXCEPT !.pc = "waitForSelector"]
    /\ UNCHANGED <<steam_ids, player_stats, scrape_logs, isRunning, processedCount,
                   successCount, failureCount, runs, now, faults, externals,
                   browser, pool, steam_id_rows, document, stats, firstEvaluation, query>>

\* try { await page.waitForSelector('[data-tippy-content], ...') } catch:
\* the inner catch goes on to the second wait
AwaitWaitForSelector ==
    /\ scrape.pc = "waitForSelector"
    /\ \E rejected \in BOOLEAN :
         scrape' = [scrape EXCEPT !.pc = IF rejected THEN "waitForText" ELSE "evaluate"]
    /\ UNCHANGED <<steam_ids, player_stats, scrape_logs, isRunning, processedCount,
                   successCount, failureCount, runs, now, faults, externals,
                   browser, pool, steam_id_rows, document, stats, firstEvaluation, query>>

\* try { await page.waitForSelector('text/K/D', ...) } catch { throw new
\* Error('Stats elements not found ...') }
AwaitWaitForText ==
    /\ scrape.pc = "waitForText"
    /\ \E rejected \in BOOLEAN, executionTime \in Durations :
         scrape' = IF rejected
                   THEN scrapeCatch(scrape, "waitForSelector", StatsNotFoundMessage,
                                    executionTime)
                   ELSE [scrape EXCEPT !.pc = "evaluate"]
    /\ UNCHANGED <<steam_ids, player_stats, scrape_logs, isRunning, processedCount,
                   successCount, failureCount, runs, now, faults, externals,
                   browser, pool, steam_id_rows, document, stats, firstEvaluation, query>>

\* const stats = await page.evaluate(...); the empty mapping throws inside the
\* try block; otherwise return { success: true, ... }, then the finally block
AwaitPageEvaluate ==
    /\ scrape.pc = "evaluate"
    /\ \E rejected \in BOOLEAN, mapping \in ScrapeMappings, executionTime \in Durations :
         scrape' =
           IF rejected
           THEN scrapeCatch(scrape, "evaluate", ProtocolErrorMessage, executionTime)
           ELSE IF DOMAIN mapping = {}
           THEN scrapeCatch(scrape, "mapping", NoStatsMessage, executionTime)
           ELSE scrapeFinally([scrape EXCEPT
                  !.result = scrapePlayerStats(scrape.steamId64,
                                               [error |-> "", player_name |-> "Unknown",
                                                stats |-> mapping],
                                               executionTime)])
    /\ UNCHANGED <<steam_ids, player_stats, scrape_logs, isRunning, processedCount,
                   successCount, failureCount, runs, now, faults, externals,
                   browser, pool, steam_id_rows, document, stats, firstEvaluation, query>>

\* finally: await page.close().  When it rejects the call throws in place of
\* returning its result, and the page is closed or still open.
AwaitPageClose ==
    /\ scrape.pc = "close"
    /\ \E rejected \in BOOLEAN, left \in {"open", "closed"} :
         scrape' = IF rejected
                   THEN [scrape EXCEPT !.pc = "thrown", !.fault = "close",
                                       !.error = ProtocolErrorMessage,
                                       !.result = NoResult, !.page = left]
                   ELSE [scrape EXCEPT !.pc = "returned", !.page = "closed"]
    /\ UNCHANGED <<steam_ids, player_stats, scrape_logs, isRunning, processedCount,
                   successCount, failureCount, runs, now, faults, externals,
                   browser, pool, steam_id_rows, document, stats, firstEvaluation, query>>

\* ScraperService.close() between two calls: this.browser becomes null, and
\* the next call launches a browser again
CallClose ==
    /\ scrape.pc \in {"idle", "returned", "thrown"}
    /\ BrowserOpen(browser)
    /\ browser' = close(browser)
    /\ UNCHANGED <<steam_ids, player_stats, scrape_logs, isRunning, processedCount,
                   successCount, failureCount, runs, now, faults, externals,
                   pool, steam_id_rows, document, stats, firstEvaluation, scrape,
                   query>>

InitScrape == InitQueue(SteamIds, {1}, {1}, 1)

NextScrape ==
    \/ CallScrapePlayerStats
    \/ CallClose
    \/ AwaitInitialize
    \/ AwaitNewPage
    \/ AwaitConfigure
    \/ AwaitPageGoto
    \/ AwaitWaitForSelector
    \/ AwaitWaitForText
    \/ AwaitPageEvaluate
    \/ AwaitPageClose

SpecScrape == InitScrape /\ [][NextScrape]_vars

----------------------------------------------------------------------------
(* DatabaseService.getTopPlayers *)

\* largest limit a caller passes
MaxLimit == 5

\* const validOrderBy = [...]
validOrderBy ==
    <<"kd_ratio", "hltv_rating", "matches_played", "kills", "adr", "matches_won">>

\* Array.prototype.includes: some element is strictly equal to the value
ArrayIncludes(array, value) == \E i \in DOMAIN array : array[i] = value

\* the template literal of getTopPlayers with orderBy interpolated three times
TopPlayersTemplate(orderBy) ==
    StringOf(<<"SELECT steam_id64, player_name, ", orderBy,
               ", matches_played, last_scraped FROM player_stats",
               " WHERE scrape_success = TRUE AND ", orderBy, " IS NOT NULL",
               " ORDER BY ", orderBy, " DESC LIMIT ?">>)

\* getTopPlayers without the test against validOrderBy
TopPlayersQuery_Unchecked(limit, orderBy) ==
    [text |-> TopPlayersTemplate(orderBy), params |-> <<limit>>]

\* if (!validOrderBy.includes(orderBy)) orderBy = 'kd_ratio'; then the query
\* and its parameter list
TopPlayersQuery(limit, orderBy) ==
    [text |-> TopPlayersTemplate(IF ArrayIncludes(validOrderBy, orderBy)
                                 THEN orderBy ELSE "kd_ratio"),
     params |-> <<limit>>]

\* the orderBy arguments callers pass: the six columns, other columns of
\* player_stats, other spellings, and text that is not a column name
OrderByArguments ==
    {validOrderBy[i] : i \in DOMAIN validOrderBy}
      \cup {"", "KD_RATIO", "kd_ratio ", " kills", "Kills", "deaths", "assists",
            "win_rate", "steam_id64", "player_name", "last_scraped",
            "kills, adr", "kills; DROP TABLE player_stats",
            "kd_ratio DESC, (SELECT 1)", "1"}

\* getTopPlayers(limit, orderBy): up to the call of dbManager.execute
getTopPlayers ==
    /\ \E limit \in 1..MaxLimit, orderBy \in OrderByArguments :
         LET executed == TopPlayersQuery(limit, orderBy)
         IN  query' = [text |-> executed.text, params |-> executed.params,
                       argument |-> orderBy]
    /\ UNCHANGED <<steam_ids, player_stats, scrape_logs, isRunning, processedCount,
                   successCount, failureCount, runs, now, faults, externals,
                   browser, pool, steam_id_rows, document, stats, firstEvaluation,
                   scrape>>

InitTopPlayers == InitQueue(SteamIds, {1}, {1}, 1)

NextTopPlayers == getTopPlayers

SpecTopPlayers == InitTopPlayers /\ [][NextTopPlayers]_vars

\* The evaluation of one page, for every page of the sample.
SpecExtract == InitPage(ExtractPages) /\ [][Evaluate]_vars

\* the pages of consecutive scrapes: different sets of fields, different names
RepeatPages == DisambiguationPages \cup NamePages

NextRepeat == Goto(RepeatPages) \/ Evaluate

\* Scrape after scrape with the one ScraperService: every scrape opens a page
\* and evaluates it.
SpecRepeat == InitPage(RepeatPages) /\ [][NextRepeat]_vars

----------------------------------------------------------------------------
(* Claims *)

Terminal == {"completed", "failed"}

\* the status transitions the claim permits
PermittedTransitions ==
    {<<"pending", "processing">>, <<"processing", "completed">>,
     <<"processing", "failed">>, <<"failed", "pending">>}

\* C1: also when a persistence call of the per-item procedure fails, the only
\* status transitions of an identifier are pending -> processing, processing
\* -> completed, processing -> failed and failed -> pending; in particular it
\* never leaves completed.
C1_StatusTransitions ==
    [][\A i \in DOMAIN steam_ids :
         \/ steam_ids'[i].status = steam_ids[i].status
         \/ <<steam_ids[i].status, steam_ids'[i].status>> \in PermittedTransitions]_vars

\* C2: at most one processSingleSteamId call is in flight at any time.
C2_AtMostOneInFlight ==
    Cardinality({r \in RunIds : InFlight(r)}) <= 1

\* C3: once stopScraping has been called during a run, that run starts no
\* further item and pulls no further batch, whatever commands follow.
C3_StoppedRunStartsNothing ==
    [][\A r \in RunIds :
         runs[r].stopped =>
           /\ ~InFlight(r) => runs'[r].pc \notin ItemPcs
           /\ runs[r].pc # "getPendingSteamIds"
                => runs'[r].pc # "getPendingSteamIds"]_vars

\* C4: when a run during which stopScraping was called ends, no identifier
\* has status processing.
C4_NoProcessingAfterCancel ==
    [][\A r \in RunIds :
         runs[r].pc # "done" /\ runs'[r].pc = "done" /\ runs'[r].stopped
           => \A i \in DOMAIN steam_ids' : steam_ids'[i].status # "processing"]_vars

\* C5: no fault raised during the per-item procedure propagates out of it: a
\* run inside processSingleSteamId never rejects.
C5_NoFaultLeavesItem ==
    [][\A r \in RunIds : InFlight(r) => runs'[r].pc # "rejected"]_vars

\* C6: failure isolation.  When a batch of n identifiers ends with no
\* cancellation and no rejected database call, whichever items failed in fetch
\* or extraction, it reports processed = n and every item, in order, reached
\* completed or failed.
C6_FailureIsolation ==
    \A r \in RunIds :
      runs[r].pc = "batchDelay" /\ ~runs[r].stopped /\ faults = 0
        => /\ Len(runs[r].results) = Len(runs[r].batch)
           /\ \A k \in 1..Len(runs[r].results) :
                /\ runs[r].results[k].steamId64 = runs[r].batch[k]
                /\ runs[r].results[k].reached \in Terminal

\* C6 witness: a batch of two ended whose first item failed and whose second
\* succeeded.
C6_Witness ==
    \E r \in RunIds :
      /\ runs[r].pc = "batchDelay" /\ ~runs[r].stopped /\ faults = 0
      /\ Len(runs[r].batch) = 2 /\ Len(runs[r].results) = 2
      /\ ~runs[r].results[1].success /\ runs[r].results[1].reached = "failed"
      /\ runs[r].results[2].success /\ runs[r].results[2].reached = "completed"

\* C7 (final clause): when a run that was never cancelled returns, with no
\* external add or reset and no rejected database call, every identifier that
\* was pending when the run began is completed or failed.
C7_AllTerminalAtTermination ==
    [][\A r \in RunIds :
         /\ runs[r].pc # "done" /\ runs'[r].pc = "done" /\ ~runs'[r].stopped
         /\ faults' = 0 /\ externals' = 0
         => \A i \in runs[r].atStart : steam_ids'[i].status \in Terminal]_vars

\* row a is not after row b under priority descending, created_at ascending
NotAfter(t, a, b) ==
    \/ t[a].priority > t[b].priority
    \/ t[a].priority = t[b].priority /\ t[a].created_at <= t[b].created_at

\* b is the first min(limit, number of pending) rows of the pending rows of t
\* in that order
FirstPending(t, b, limit) ==
    LET pending == {i \in DOMAIN t : t[i].status = "pending"}
        chosen  == {b[k] : k \in 1..Len(b)}
    IN  /\ Len(b) = IF Cardinality(pending) < limit
                    THEN Cardinality(pending) ELSE limit
        /\ Cardinality(chosen) = Len(b)
        /\ chosen \subseteq pending
        /\ \A j, k \in 1..Len(b) : j < k => NotAfter(t, b[j], b[k])
        /\ \A i \in pending \ chosen : \A k \in 1..Len(b) : NotAfter(t, b[k], i)

\* C8: batch selection returns exactly the first min(batch_size, number of
\* pending) identifiers of the pending rows ordered by priority descending,
\* then created_at ascending, and no row that is not pending.
C8_BatchSelection ==
    [][\A r \in RunIds :
         runs[r].pc = "getPendingSteamIds" /\ runs'[r].pc # "getPendingSteamIds"
           /\ isRunning
           => FirstPending(steam_ids, runs'[r].batch, batchSize)]_vars

\* C8 witness: of three pending rows the run selected the older, then the
\* newer of the two with the higher priority, and left the third, which is
\* older than the second selected.
C8_Witness ==
    \E r \in RunIds :
      /\ runs[r].pc = "logScrapeStart" /\ runs[r].idx = 1
      /\ Len(runs[r].batch) = 2
      /\ LET a == runs[r].batch[1]
             b == runs[r].batch[2]
         IN  /\ steam_ids[a].priority = steam_ids[b].priority
             /\ steam_ids[a].created_at < steam_ids[b].created_at
             /\ \E c \in DOMAIN steam_ids \ {a, b} :
                  /\ steam_ids[c].status = "pending"
                  /\ steam_ids[c].priority < steam_ids[a].priority
                  /\ steam_ids[c].created_at < steam_ids[b].created_at

\* C9: within one run the identifiers of a batch are attempted in the order
\* selected: while the run works on the item at position idx, each earlier
\* item of the batch has returned, in order, after reaching completed or
\* failed.
C9_AttemptsInSelectionOrder ==
    \A r \in RunIds :
      InFlight(r)
        => /\ Len(runs[r].results) = runs[r].idx - 1
           /\ \A k \in 1..Len(runs[r].results) :
                /\ runs[r].results[k].steamId64 = runs[r].batch[k]
                /\ runs[r].results[k].reached \in Terminal

\* C9 witness: the second item of a batch has just been set to processing.
C9_Witness ==
    \E r \in RunIds :
      /\ runs[r].pc = "scrapePlayerStats" /\ runs[r].idx = 2
      /\ runs[r].reached = "processing"
      /\ steam_ids[runs[r].batch[2]].status = "processing"

\* the current identifier of run r had a player_stats row when its attempt began
HadRecord(r) ==
    IF runs[r].pc = "logScrapeStart"
    THEN Current(r) \in DOMAIN player_stats
    ELSE runs[r].hadRecord

\* the attempt run r is inside ends in this step as a failure: the procedure
\* returns {success: false} or rejects
FailedAttemptEnds(r) ==
    /\ InFlight(r)
    /\ \/ runs'[r].pc = "rejected"
       \/ /\ Len(runs'[r].results) = Len(runs[r].results) + 1
          /\ ~runs'[r].results[Len(runs'[r].results)].success

\* a write that marks an existing player_stats row failed changes nothing of
\* it but last_scraped, scrape_success and error_message
FailureWriteFrame ==
    \A i \in DOMAIN player_stats :
      player_stats'[i] # player_stats[i] /\ ~player_stats'[i].scrape_success
        => /\ player_stats'[i].stats = player_stats[i].stats
           /\ player_stats'[i].player_name = player_stats[i].player_name
           /\ player_stats'[i].profile_url = player_stats[i].profile_url
           /\ player_stats'[i].error_message # NULL

\* when a failed attempt for an identifier that had a player_stats row ends,
\* the row is marked failed, the identifier is failed and the log entry of the
\* attempt is failed with the error message
FailedAttemptRecorded ==
    \A r \in RunIds :
      FailedAttemptEnds(r) /\ HadRecord(r)
        => LET steamId64 == Current(r)
               logId == runs[r].logId
           IN  /\ ~player_stats'[steamId64].scrape_success
               /\ steam_ids'[steamId64].status = "failed"
               /\ logId \in DOMAIN scrape_logs'
               /\ scrape_logs'[logId].status = "failed"
               /\ player_stats'[steamId64].error_message =
                    Some(scrape_logs'[logId].message)

\* C11: on any failed attempt for an identifier that already has a StatRecord
\* the failure write changes only last_scraped, scrape_success and
\* error_message, and the identifier becomes failed and the log entry failed
\* with the error message.
C11_FailureWrite ==
    [][FailureWriteFrame /\ FailedAttemptRecorded]_vars

\* C11, the frame clause alone
C11_FrameOnly == [][FailureWriteFrame]_vars

\* C12: zero-field guard.  No player_stats row has scrape_success = TRUE while
\* carrying no stat field, whatever the extracted values, 0 included.
C12_ZeroFieldGuard ==
    \A i \in DOMAIN player_stats :
      player_stats[i].scrape_success
        => \E f \in StatFields : player_stats[i].stats[f] # NULL

C14_CountersAgree ==
    (\A r \in RunIds : ~InFlight(r))
      => processedCount = successCount + failureCount

\* C15: no automatic retry.  Within one run, with no external reset or add, an
\* identifier is attempted at most once: the identifier a run starts an
\* attempt for is none it has attempted before.
C15_NoRetryWithinRun ==
    [][\A r \in RunIds :
         runs[r].pc # "logScrapeStart" /\ runs'[r].pc = "logScrapeStart"
           => runs'[r].batch[runs'[r].idx] \notin runs[r].attempted]_vars

\* C15 witness: a run is in a later batch, starting the attempt of an
\* identifier, after an identifier of its first batch failed.
C15_Witness ==
    \E r \in RunIds :
      /\ runs[r].pc = "logScrapeStart"
      /\ Cardinality(runs[r].attempted) = NumIds
      /\ \E i \in runs[r].attempted \ {Current(r)} : steam_ids[i].status = "failed"
      /\ \A i \in DOMAIN steam_ids : i # Current(r) => steam_ids[i].status \in Terminal

\* C16: at every moment at most one identifier has status processing.
C16_AtMostOneProcessing ==
    Cardinality({i \in DOMAIN steam_ids : steam_ids[i].status = "processing"}) <= 1

\* C17: before a new run begins, the identifiers an earlier run left in
\* processing are back to pending: when startScraping starts a run while no
\* other invocation is alive, no identifier has status processing.
C17_StaleProcessingReconciled ==
    [][\A r \in RunIds :
         /\ runs[r].pc = "idle" /\ runs'[r].pc = "getPendingSteamIds"
         /\ \A q \in RunIds : ~Active(q)
         => \A i \in DOMAIN steam_ids' : steam_ids'[i].status # "processing"]_vars

\* C20: getPendingSteamIds rejecting before a batch starts aborts the run:
\* startScraping rejects, the aborted batch changes no identifier status, and
\* the running flag is false afterwards.
C20_ListPendingFaultAborts ==
    [][\A r \in RunIds :
         (/\ runs[r].pc = "getPendingSteamIds" /\ runs'[r] # runs[r]
          /\ faults' = faults + 1)
           => /\ runs'[r].pc = "rejected"
              /\ steam_ids' = steam_ids
              /\ ~isRunning']_vars

\* C20 witness: the query for the second batch of a run rejected; the run is
\* over, the identifiers of its first batch are completed or failed and the
\* third is still pending.
C20_Witness ==
    \E r \in RunIds :
      /\ runs[r].pc = "rejected" /\ runs[r].rejectedAt = "getPendingSteamIds"
      /\ ~isRunning
      /\ Cardinality({i \in DOMAIN steam_ids : steam_ids[i].status \in Terminal}) = 2
      /\ Cardinality({i \in DOMAIN steam_ids : steam_ids[i].status = "pending"}) = 1

\* C18: the browser is reused across the items of a run and released exactly
\* once at run end, on every exit path of the run: when an invocation of
\* startScraping returns or rejects, that step closes the browser.
C18_BrowserReleasedAtRunEnd ==
    [][\A r \in RunIds :
         Active(r) /\ runs'[r].pc \in {"done", "rejected"}
           => /\ browser'.closed = browser.closed + 1
              /\ ~BrowserOpen(browser')]_vars

\* C18, the reuse clause alone: while the process lives the browser launched
\* at start is the one in use
C18_ReuseOnly ==
    (\E r \in RunIds : runs[r].pc # "exited") => browser = LaunchedBrowser

C10_SuccessPersisted ==
    \A r \in RunIds :
      /\ runs[r].pc \in {"itemDelay", "batchDelay"}
      /\ Len(runs[r].results) > 0
      /\ runs[r].results[Len(runs[r].results)].success
      => LET steamId64 == Current(r)
             extracted == runs[r].result.data.stats
         IN  /\ steamId64 \in DOMAIN player_stats
             /\ player_stats[steamId64].scrape_success
             /\ player_stats[steamId64].error_message = NULL
             /\ \A f \in StatFields :
                  player_stats[steamId64].stats[f] =
                    IF f \in DOMAIN extracted THEN Some(extracted[f]) ELSE NULL
             /\ steam_ids[steamId64].status = "completed"
             /\ scrape_logs[runs[r].logId].status = "success"
             /\ scrape_logs[runs[r].logId].stats_extracted =
                  Cardinality(DOMAIN extracted)

\* the attempt of run r ends in this step: processSingleSteamId returns
AttemptReturns(r) ==
    /\ InFlight(r)
    /\ runs'[r].pc \in {"itemDelay", "batchDelay", "done"}

\* the attempt of run r ends in this step, by returning or by throwing
AttemptEnds(r) ==
    /\ InFlight(r)
    /\ runs'[r].pc \in {"itemDelay", "batchDelay", "done", "rejected"}

\* the log entry of the attempt of run r is created in this step
EntryCreated(r) ==
    /\ runs[r].pc = "logScrapeStart"
    /\ runs'[r].pc = "setProcessing"

\* scrape_logs changes only by one attempt appending its entry in phase
\* started, before that attempt sets the identifier to processing, or by an
\* update in place of the entry an attempt created
LogEntryLifecycle ==
    /\ Len(scrape_logs') # Len(scrape_logs)
         => \E r \in RunIds :
              /\ EntryCreated(r)
              /\ scrape_logs' = Append(scrape_logs, scrape_logs'[runs'[r].logId])
              /\ runs'[r].logId = Len(scrape_logs')
              /\ scrape_logs'[runs'[r].logId].status = "started"
              /\ scrape_logs'[runs'[r].logId].steam_id64 = Current(r)
    /\ \A r \in RunIds : EntryCreated(r) => Len(scrape_logs') = Len(scrape_logs) + 1
    /\ \A i \in DOMAIN scrape_logs :
         scrape_logs'[i] # scrape_logs[i]
           => /\ scrape_logs[i].status = "started"
              /\ scrape_logs'[i].status \in {"success", "failed"}
              /\ \E r \in RunIds : InFlight(r) /\ runs[r].logId = i

\* the entry of the attempt that ends, and the identifier's status, after it
EntryAgreesWithStatus(r) ==
    LET entry == scrape_logs'[runs[r].logId]
    IN  /\ runs[r].logId \in DOMAIN scrape_logs'
        /\ entry.steam_id64 = Current(r)
        /\ entry.status \in {"success", "failed"}
        /\ entry.status = "success" <=> steam_ids'[Current(r)].status = "completed"

\* C21: each attempt creates exactly one log entry, in phase started and
\* before the identifier is set to processing, and that entry is updated in
\* place to success or failed; when the per-item procedure returns the entry
\* is not in phase started, and it is in phase success exactly when the
\* identifier's status is completed.
C21_LogEntryAtReturn ==
    [][/\ LogEntryLifecycle
       /\ \A r \in RunIds : AttemptReturns(r) => EntryAgreesWithStatus(r)]_vars

\* C21, every attempt: also the attempt that ends by throwing has its entry,
\* updated to success or failed
C21_LogEntryEveryAttempt ==
    [][\A r \in RunIds : AttemptEnds(r) => EntryAgreesWithStatus(r)]_vars

\* C21, the lifecycle of the entries alone
C21_LifecycleOnly == [][LogEntryLifecycle]_vars

\* the rows of steam_ids whose steam_id64 is v
RowsWith(rows, v) == {i \in DOMAIN rows : rows[i].steam_id64 = v}

\* the identifiers the value tuples of a statement name
Named(statement) == {statement.values[k][1] : k \in DOMAIN statement.values}

\* C22: upsert uniqueness.  After any sequence of addSteamId and
\* addMultipleSteamIds calls no value has two rows, and every value a call
\* that returned has named has exactly one; a call changes only priority and
\* updated_at of a row that exists (its status and created_at stay as they
\* were, a completed or failed row is not made pending again) and nothing of
\* the rows it does not name.
C22_UpsertUniqueness ==
    [][LET old == steam_id_rows.rows
           new == steam_id_rows'.rows
           statement == steam_id_rows'.statement
       IN  /\ \A i, j \in DOMAIN new :
                new[i].steam_id64 = new[j].steam_id64 => i = j
           /\ ~statement.rejected
                => \A v \in Named(statement) : Cardinality(RowsWith(new, v)) = 1
           /\ Len(new) >= Len(old)
           /\ \A i \in DOMAIN old :
                /\ new[i].steam_id64 = old[i].steam_id64
                /\ new[i].status = old[i].status
                /\ new[i].created_at = old[i].created_at
                /\ (old[i].steam_id64 \notin Named(statement) \/ statement.rejected)
                     => new[i] = old[i]
           /\ \A i \in DOMAIN new \ DOMAIN old :
                /\ new[i].steam_id64 \in Named(statement)
                /\ new[i].status = "pending"]_vars

\* C22 witness: one addMultipleSteamIds call named a completed identifier,
\* whose row kept its status and creation time and was updated, and a new
\* identifier, which has one row.
C22_Witness ==
    LET rows == steam_id_rows.rows
        statement == steam_id_rows.statement
    IN  /\ statement.name = "addMultipleSteamIds"
        /\ ~statement.rejected
        /\ Len(rows) = 2
        /\ rows[1].status = "completed"
        /\ rows[1].created_at < rows[1].updated_at
        /\ rows[1].steam_id64 \in Named(statement)
        /\ rows[2].created_at = now
        /\ rows[2].steam_id64 \in Named(statement)

\* C23: reset semantics.  The reset command sets every identifier whose status
\* is failed to pending and leaves the status of every pending, processing and
\* completed identifier unchanged, as well as every player_stats row and every
\* log entry.
C23_ResetSemantics ==
    [][externals' = externals + 1
         => /\ DOMAIN steam_ids' = DOMAIN steam_ids
            /\ \A i \in DOMAIN steam_ids :
                 IF steam_ids[i].status = "failed"
                 THEN steam_ids'[i].status = "pending"
                 ELSE steam_ids'[i] = steam_ids[i]
            /\ player_stats' = player_stats
            /\ scrape_logs' = scrape_logs]_vars

\* C23 witness: the reset came while a run was working: the identifier whose
\* attempt had failed is pending again with its failure record, another is
\* completed and a third is processing.
C23_Witness ==
    /\ externals = 1
    /\ \E i, j, k \in DOMAIN steam_ids :
         /\ steam_ids[i].status = "pending"
         /\ i \in DOMAIN player_stats /\ ~player_stats[i].scrape_success
         /\ steam_ids[j].status = "completed"
         /\ steam_ids[k].status = "processing"

\* C24: pacing.  Within one run a scrape starts only after a delay has elapsed
\* since the run's previous scrape ended: the delay between items when the
\* item is not the first of its batch, the delay between batches when it is
\* the first item of a later batch.
C24_Pacing ==
    \A r \in RunIds :
      runs[r].pc = "scrapePlayerStats"
        => runs[r].paced =
             IF runs[r].idx > 1 THEN "itemDelay"
             ELSE IF runs[r].attempted = {Current(r)} THEN ""
             ELSE "batchDelay"

\* C24 witness: the scrape of the first item of the second batch is under way,
\* after a first batch of two items.
C24_Witness ==
    \E r \in RunIds :
      /\ runs[r].pc = "scrapePlayerStats"
      /\ runs[r].idx = 1
      /\ Cardinality(runs[r].attempted) = batchSize + 1
      /\ runs[r].paced = "batchDelay"

\* C25: disambiguation.  For integer nodes with the contexts "Kills: 4821",
\* "Deaths 3190" and "Rounds Played 18452" the evaluation assigns kills = 4821,
\* deaths = 3190 and rounds_played = 18452, and 18452 to no other field.
C25_Disambiguation ==
    (document \in DisambiguationPages /\ stats # NotEvaluated)
      => /\ {"kills", "deaths", "rounds_played"} \subseteq DOMAIN stats.stats
         /\ stats.stats["kills"] = 4821
         /\ stats.stats["deaths"] = 3190
         /\ stats.stats["rounds_played"] = 18452
         /\ DOMAIN stats.stats \subseteq {"kills", "deaths", "rounds_played"}

\* the field a rule family classifies element el of doc to ("" for none) and
\* the value that node carries
DecimalClass(doc, el) ==
    LET svg == closest(doc, el, "svg")
        parent == IF svg = 0 THEN 0 ELSE parentElement(doc, svg)
    IN  IF doc[el].tag = "text" /\ MatchesDecimal(getText(doc, el)) /\ parent # 0
        THEN DecimalField(toLowerCase(textContent(doc, FirstDescendant(doc, parent))))
        ELSE ""

PercentClass(doc, el) ==
    IF MatchesPercent(getText(doc, el)) THEN PercentField(PercentContext(doc, el)) ELSE ""

IntegerClass(doc, el) ==
    IF MatchesDigits(getText(doc, el)) /\ parseInt(getText(doc, el)) > 0
    THEN IntegerField(IntegerContext(doc, el), parseInt(getText(doc, el)))
    ELSE ""

\* no catalog label stands in the document
NoLabel(doc) == \A k \in DOMAIN statLabels : labelElement(doc, statLabels[k].label) = 0

\* C26: first match wins.  When several nodes in document order are classified
\* to the same field by the decimal, percentage or integer rules, the field
\* holds the value of the earliest such node (documents without a catalog
\* label, so that the label fallback plays no part).
C26_FirstMatchWins ==
    (document # NoDocument /\ firstEvaluation # NoEvaluation /\ NoLabel(document))
      => \A el \in DOMAIN document :
           /\ (DecimalClass(document, el) # ""
                 => stats.stats[DecimalClass(document, el)]
                      = parseFloat(getText(document,
                          First({e \in DOMAIN document :
                                   DecimalClass(document, e) = DecimalClass(document, el)}))))
           /\ (PercentClass(document, el) # ""
                 => stats.stats[PercentClass(document, el)]
                      = getText(document,
                          First({e \in DOMAIN document :
                                   PercentClass(document, e) = PercentClass(document, el)})))
           /\ (IntegerClass(document, el) # ""
                 => stats.stats[IntegerClass(document, el)]
                      = parseInt(getText(document,
                          First({e \in DOMAIN document :
                                   IntegerClass(document, e) = IntegerClass(document, el)}))))

\* the same with the latest node in place of the earliest: what the
\* assignments of the three loops do
Last(els) == IF els = {} THEN 0 ELSE CHOOSE e \in els : \A d \in els : e >= d

C26_LastMatchWins ==
    (document # NoDocument /\ firstEvaluation # NoEvaluation /\ NoLabel(document))
      => \A el \in DOMAIN document :
           /\ (DecimalClass(document, el) # ""
                 => stats.stats[DecimalClass(document, el)]
                      = parseFloat(getText(document,
                          Last({e \in DOMAIN document :
                                  DecimalClass(document, e) = DecimalClass(document, el)}))))
           /\ (PercentClass(document, el) # ""
                 => stats.stats[PercentClass(document, el)]
                      = getText(document,
                          Last({e \in DOMAIN document :
                                  PercentClass(document, e) = PercentClass(document, el)})))
           /\ (IntegerClass(document, el) # ""
                 => stats.stats[IntegerClass(document, el)]
                      = parseInt(getText(document,
                          Last({e \in DOMAIN document :
                                  IntegerClass(document, e) = IntegerClass(document, el)}))))

\* what the decimal, percentage and integer rules leave before the labels are
\* looked at
BeforeLabels(doc) ==
    ForEachInteger(doc, 1, ForEachPercent(doc, 1, ForEachDecimal(doc, 1, EmptyStats)))

\* the element the fallback of the k-th catalog label finds (0: none)
FoundFor(doc, k) ==
    IF labelElement(doc, statLabels[k].label) = 0
    THEN 0
    ELSE WindowValue(doc, labelElement(doc, statLabels[k].label), statLabels[k].label)

\* C27: label-adjacency fallback.  For each catalog label, the first integer
\* text among the label element's up to 2 preceding and up to 2 following
\* siblings is assigned to the mapped field only when the decimal, percentage
\* and integer rules did not set that field; a field already set keeps its
\* value.
C27_LabelFallback ==
    (document # NoDocument /\ firstEvaluation # NoEvaluation)
      => \A k \in DOMAIN statLabels :
           IF statLabels[k].field \in DOMAIN BeforeLabels(document)
           THEN stats.stats[statLabels[k].field]
                  = BeforeLabels(document)[statLabels[k].field]
           ELSE FoundFor(document, k) # 0
                  => /\ statLabels[k].field \in DOMAIN stats.stats
                     /\ stats.stats[statLabels[k].field]
                          = parseInt(getText(document, FoundFor(document, k)))

\* the part of C27 that the code keeps: a field the rules left unset takes the
\* value the fallback finds
C27_FallbackWhenUnset ==
    (document # NoDocument /\ firstEvaluation # NoEvaluation)
      => \A k \in DOMAIN statLabels :
           (FoundFor(document, k) # 0)
             => /\ statLabels[k].field \in DOMAIN stats.stats
                /\ stats.stats[statLabels[k].field]
                     = parseInt(getText(document, FoundFor(document, k)))

\* the numeric rules of the standalone script: the same chain, another
\* threshold for rounds
StandaloneRoundsAbove == 10000

scrapeCS2StatsField(context, num) ==
    IF includes(context, <<"k", "i", "l", "l">>) /\ ~includes(context, <<"d", "e", "a", "t", "h">>) THEN "kills"
    ELSE IF includes(context, <<"d", "e", "a", "t", "h">>) /\ ~includes(context, <<"k", "i", "l", "l">>) THEN "deaths"
    ELSE IF includes(context, <<"a", "s", "s", "i", "s", "t">>) THEN "assists"
    ELSE IF includes(context, <<"h", "e", "a", "d", "s", "h", "o", "t">>) /\ num < HeadshotsBelow THEN "headshots"
    ELSE IF includes(context, <<"p", "l", "a", "y", "e", "d">>) \/ includes(context, <<"m", "a", "t", "c", "h">>)
    THEN "matches_played"
    ELSE IF includes(context, <<"w", "o", "n">>) /\ num < MatchesBelow THEN "matches_won"
    ELSE IF includes(context, <<"l", "o", "s", "t">>) /\ num < MatchesBelow THEN "matches_lost"
    ELSE IF includes(context, <<"r", "o", "u", "n", "d">>) /\ num > StandaloneRoundsAbove THEN "rounds_played"
    ELSE IF includes(context, <<"d", "a", "m", "a", "g", "e">>) /\ num > DamageAbove THEN "total_damage"
    ELSE ""

\* the routing table of the claim, in its order: a rule is met by a context
\* that has one of `any`, none of `none`, and a value below `below` (0: no
\* such guard) and above `above` (-1: no such guard)
RoutingTable(roundsAbove, damageAbove) ==
    << [field |-> "kills", any |-> {<<"k", "i", "l", "l">>}, none |-> {<<"d", "e", "a", "t", "h">>}, below |-> 0, above |-> -1],
       [field |-> "deaths", any |-> {<<"d", "e", "a", "t", "h">>}, none |-> {<<"k", "i", "l", "l">>}, below |-> 0, above |-> -1],
       [field |-> "assists", any |-> {<<"a", "s", "s", "i", "s", "t">>}, none |-> {}, below |-> 0, above |-> -1],
       [field |-> "headshots", any |-> {<<"h", "e", "a", "d", "s", "h", "o", "t">>}, none |-> {}, below |-> 50000, above |-> -1],
       [field |-> "matches_played", any |-> {<<"p", "l", "a", "y", "e", "d">>, <<"m", "a", "t", "c", "h">>}, none |-> {}, below |-> 0, above |-> -1],
       [field |-> "matches_won", any |-> {<<"w", "o", "n">>}, none |-> {}, below |-> 10000, above |-> -1],
       [field |-> "matches_lost", any |-> {<<"l", "o", "s", "t">>}, none |-> {}, below |-> 10000, above |-> -1],
       [field |-> "rounds_played", any |-> {<<"r", "o", "u", "n", "d">>}, none |-> {}, below |-> 0, above |-> roundsAbove],
       [field |-> "total_damage", any |-> {<<"d", "a", "m", "a", "g", "e">>}, none |-> {}, below |-> 0, above |-> damageAbove] >>

Meets(rule, context, num) ==
    /\ \E k \in rule.any : includes(context, k)
    /\ \A k \in rule.none : ~includes(context, k)
    /\ (rule.below = 0 \/ num < rule.below)
    /\ num > rule.above

\* the field of the first rule of the table that is met ("" for none)
Routed(context, num, roundsAbove, damageAbove) ==
    LET table == RoutingTable(roundsAbove, damageAbove)
        met == {i \in DOMAIN table : Meets(table[i], context, num)}
    IN  IF met = {} THEN "" ELSE table[First(met)].field

RoutedFields == {"kills", "deaths", "assists", "headshots", "matches_played",
                 "matches_won", "matches_lost", "rounds_played", "total_damage"}

\* the integer nodes of a document whose value is at least `least` and which
\* the table routes to field f
NodesRouted(doc, f, least) ==
    {el \in DOMAIN doc :
       /\ MatchesDigits(getText(doc, el))
       /\ parseInt(getText(doc, el)) >= least
       /\ Routed(IntegerContext(doc, el), parseInt(getText(doc, el)),
                 RoundsAbove, DamageAbove) = f}

\* a field of the table is set exactly when a node of at least `least` is
\* routed to it, and then holds the value of such a node
RoutingOf(least) ==
    (document # NoDocument /\ firstEvaluation # NoEvaluation /\ NoLabel(document))
      => \A f \in RoutedFields :
           /\ (f \in DOMAIN stats.stats) <=> (NodesRouted(document, f, least) # {})
           /\ (f \in DOMAIN stats.stats)
                => stats.stats[f] \in {parseInt(getText(document, el))
                                         : el \in NodesRouted(document, f, least)}

C28_Witness ==
    /\ firstEvaluation # NoEvaluation
    /\ NoLabel(document)
    /\ \E el \in DOMAIN document :
         /\ MatchesDigits(getText(document, el))
         /\ parseInt(getText(document, el)) > 0
         /\ includes(IntegerContext(document, el), <<"k", "i", "l", "l">>)
         /\ includes(IntegerContext(document, el), <<"d", "e", "a", "t", "h">>)
    /\ DOMAIN stats.stats = {}

PercentTable ==
    << [field |-> "win_rate", any |-> {<<"w", "i", "n">>}],
       [field |-> "headshot_percentage", any |-> {<<"h", "s">>, <<"h", "e", "a", "d", "s", "h", "o", "t">>}],
       [field |-> "clutch_success", any |-> {<<"c", "l", "u", "t", "c", "h">>}],
       [field |-> "entry_success", any |-> {<<"e", "n", "t", "r", "y">>}] >>

\* the field of the first entry of the table one of whose keywords the
\* lower-cased text of el's parent contains ("" for none, and for an element
\* without a parent)
PercentRouted(doc, el) ==
    LET context == IF doc[el].parent = 0
                   THEN <<>>
                   ELSE toLowerCase(textContent(doc, doc[el].parent))
        met == {i \in DOMAIN PercentTable :
                  \E k \in PercentTable[i].any : includes(context, k)}
    IN  IF met = {} THEN "" ELSE PercentTable[First(met)].field

\* the nodes whose text is digits followed by % and which the table routes to f
PercentNodes(doc, f) ==
    {el \in DOMAIN doc : MatchesPercent(getText(doc, el)) /\ PercentRouted(doc, el) = f}

\* C29: percentage classification routes a node matching digits followed by %
\* by the keywords of its parent's text, case-insensitively (win -> win_rate,
\* hs or headshot -> headshot_percentage, clutch -> clutch_success, entry ->
\* entry_success): a percentage field is set exactly when such a node is
\* routed to it, and holds the literal percentage text of such a node; a node
\* whose context has none of the keywords sets no field.
C29_PercentRouting ==
    (document # NoDocument /\ firstEvaluation # NoEvaluation)
      => \A f \in {PercentTable[i].field : i \in DOMAIN PercentTable} :
           /\ (f \in DOMAIN stats.stats) <=> (PercentNodes(document, f) # {})
           /\ (f \in DOMAIN stats.stats)
                => /\ stats.stats[f] \in {getText(document, el) : el \in PercentNodes(document, f)}
                   /\ stats.stats[f][Len(stats.stats[f])] = "%"

\* a percentage whose context spells a keyword in upper case was routed, and
\* another one in a context without keyword set nothing
C29_Witness ==
    /\ firstEvaluation # NoEvaluation
    /\ DOMAIN stats.stats = {"headshot_percentage"}
    /\ \E el \in DOMAIN document :
         /\ MatchesPercent(getText(document, el))
         /\ includes(textContent(document, document[el].parent), <<"H", "S">>)
    /\ \E el \in DOMAIN document :
         /\ MatchesPercent(getText(document, el))
         /\ PercentRouted(document, el) = ""

HeadingText(doc) ==
    LET hs == {e \in DOMAIN doc : doc[e].tag = "h1"}
    IN  IF hs = {} THEN <<>>
        ELSE trim(textContent(doc, CHOOSE e \in hs : \A d \in hs : e <= d))

\* the trimmed segment of the first <title> before the first "-" (<<>>
\* without a title)
TitleSegment(doc) ==
    LET ts == {e \in DOMAIN doc : doc[e].tag = "title"}
        text == IF ts = {} THEN <<>>
                ELSE textContent(doc, CHOOSE e \in ts : \A d \in ts : e <= d)
        upTo == CHOOSE n \in 0..Len(text) :
                  /\ \A j \in 1..n : text[j] # "-"
                  /\ n = Len(text) \/ text[n + 1] = "-"
    IN  trim(SubSeq(text, 1, upTo))

C32_WitnessHeading ==
    /\ firstEvaluation # NoEvaluation
    /\ HeadingText(document) # <<>>
    /\ TitleSegment(document) # <<>>
    /\ HeadingText(document) # TitleSegment(document)
    /\ stats.player_name = HeadingText(document)

\* C33: whenever no item is in flight (and no external reset or add has
\* happened), the queue status of every identifier agrees with its
\* player_stats row: completed implies scrape_success = TRUE, failed implies
\* scrape_success = FALSE; also when a persistence call fails after the success
\* upsert.
C33_StatusAgreesWithRecord ==
    (externals = 0 /\ \A r \in RunIds : ~InFlight(r))
      => \A i \in DOMAIN steam_ids :
           /\ (steam_ids[i].status = "completed")
                => (i \in DOMAIN player_stats /\ player_stats[i].scrape_success)
           /\ (steam_ids[i].status = "failed")
                => (i \in DOMAIN player_stats /\ ~player_stats[i].scrape_success)

\* the half of C33 about failed identifiers
C33_FailedAgrees ==
    (externals = 0 /\ \A r \in RunIds : ~InFlight(r))
      => \A i \in DOMAIN steam_ids :
           (steam_ids[i].status = "failed")
             => (i \in DOMAIN player_stats /\ ~player_stats[i].scrape_success)

\* C34: a success upsert overwrites every stat column of the row: a column the
\* current extraction did not produce is NULL afterwards, whatever an earlier
\* successful attempt left there, and a column it produced holds the new value
\* (or NULL).
C34_FullOverwrite ==
    [][\A r \in RunIds :
         (runs[r].pc = "savePlayerStats" /\ runs'[r].pc = "setCompleted")
           => \A f \in StatFields :
                IF f \in DOMAIN runs[r].result.data.stats
                THEN player_stats'[Current(r)].stats[f]
                       \in {Some(runs[r].result.data.stats[f]), NULL}
                ELSE player_stats'[Current(r)].stats[f] = NULL]_vars

\* the success upsert of an identifier that had a row with win_rate from an
\* earlier attempt has run: kd_ratio is set, win_rate is NULL
C34_Witness ==
    \E r \in RunIds :
      /\ runs[r].pc = "setCompleted"
      /\ runs[r].hadRecord
      /\ player_stats[Current(r)].scrape_success
      /\ player_stats[Current(r)].stats["kd_ratio"] # NULL
      /\ player_stats[Current(r)].stats["win_rate"] = NULL

\* C35: startScraping called while a run is active is a no-op: while some
\* invocation is active no other invocation leaves its idle frame, so that no
\* second run loop starts (the step that starts one also sets the flag and
\* zeroes the three counters).
C35_StartWhileActiveIsNoOp ==
    [][(\E q \in RunIds : Active(q))
         => \A r \in RunIds : runs[r].pc = "idle" => runs'[r].pc = "idle"]_vars

\* the guard of startScraping: no run loop starts while the flag is set
C35_NoStartWhileFlagSet ==
    [][isRunning => \A r \in RunIds : runs[r].pc = "idle" => runs'[r].pc = "idle"]_vars

\* C36: the running flag is true exactly while a run loop is active.
C36_FlagExactlyWhileActive == isRunning <=> \E r \in RunIds : Active(r)

\* C36, the end of a run: the step in which an invocation returns or throws
\* leaves the flag false only if no other invocation is still active.
C36_FinallySparesLaterRun ==
    [][\A r \in RunIds :
         (Active(r) /\ runs'[r].pc \in {"done", "rejected"})
            => (isRunning' <=> \E q \in RunIds : runs'[q].pc \in ActivePcs)]_vars

\* C36, the part that holds: once every invocation has returned or thrown the
\* flag is false.
C36_FalseAfterReturn == isRunning => \E r \in RunIds : Active(r)

C38_FailedEntryHasDuration ==
    \A i \in DOMAIN scrape_logs :
        scrape_logs[i].status = "failed"
          => /\ scrape_logs[i].execution_time \in {Some(t) : t \in Durations}
             /\ scrape_logs[i].message # ""

\* C38, the part that holds: a failed entry carries an error message, and it
\* carries a measured duration unless the catch block wrote it.
C38_FailedEntryHasMessage ==
    \A i \in DOMAIN scrape_logs :
        scrape_logs[i].status = "failed"
          => /\ scrape_logs[i].message \in {HttpErrorMessage, NoStatsMessage,
                                            DbErrorMessage, BrowserErrorMessage}
             /\ scrape_logs[i].execution_time \in {Some(t) : t \in Durations \cup {0}}
             /\ (scrape_logs[i].message \in {HttpErrorMessage, NoStatsMessage}
                   => scrape_logs[i].execution_time # Some(0))

\* the query of getTopPlayers for one column, as the source writes it
QueryOrderedBy(column) ==
    "SELECT steam_id64, player_name, " \o column
      \o ", matches_played, last_scraped FROM player_stats"
      \o " WHERE scrape_success = TRUE AND " \o column \o " IS NOT NULL"
      \o " ORDER BY " \o column \o " DESC LIMIT ?"

Whitelist ==
    {"kd_ratio", "hltv_rating", "matches_played", "kills", "adr", "matches_won"}

\* C39: the query getTopPlayers executes is the one for a column of the
\* whitelist: the argument's when the argument is in the whitelist, the one
\* for kd_ratio for every other argument.
C39_WhitelistOnly ==
    query # NoQuery
      => /\ query.text \in {QueryOrderedBy(column) : column \in Whitelist}
         /\ (query.argument \in Whitelist => query.text = QueryOrderedBy(query.argument))
         /\ (query.argument \notin Whitelist => query.text = QueryOrderedBy("kd_ratio"))

\* a call whose argument is not a column name at all
C39_Witness ==
    /\ query.argument = "kills; DROP TABLE player_stats"
    /\ query.text = QueryOrderedBy("kd_ratio")
    /\ query.params = <<MaxLimit>>

\* C40: DatabaseManager.transaction is all-or-nothing.  An operation that
\* returned has executed every query of its list and committed them; one in
\* which a query failed has rolled the transaction back, has left no effect
\* visible or pending and throws the query's error; either way every
\* connection acquired has been released.
C40_AllOrNothing ==
    \A o \in OpIds :
        pool.ops[o].kind = "transaction"
          => /\ pool.ops[o].pc = "returned"
                  => /\ pool.ops[o].visible = pool.ops[o].queries
                     /\ pool.ops[o].ended = "commit"
             /\ (pool.ops[o].pc = "rejected" /\ pool.ops[o].failed = "query")
                  => /\ pool.ops[o].ended = "rollback"
                     /\ pool.ops[o].visible = 0
                     /\ pool.ops[o].applied = 0
                     /\ pool.ops[o].thrown = "query"
             /\ pool.ops[o].pc \in SettledPcs
                  => pool.held = Cardinality({q \in OpIds : pool.ops[q].pc \in HoldingPcs})

\* C40, the part that holds: the same, for the operations whose rollback did
\* not reject as well; and no effect of a transaction that threw is visible.
C40_UnlessRollbackRejects ==
    \A o \in OpIds :
        pool.ops[o].kind = "transaction"
          => /\ pool.ops[o].pc = "returned"
                  => /\ pool.ops[o].visible = pool.ops[o].queries
                     /\ pool.ops[o].ended = "commit"
             /\ (pool.ops[o].pc = "rejected" /\ pool.ops[o].failed = "query"
                   /\ pool.ops[o].thrown # "rollback")
                  => /\ pool.ops[o].ended = "rollback"
                     /\ pool.ops[o].applied = 0
                     /\ pool.ops[o].thrown = "query"
             /\ pool.ops[o].pc = "rejected" => pool.ops[o].visible = 0
             /\ pool.ops[o].pc \in SettledPcs
                  => pool.held = Cardinality({q \in OpIds : pool.ops[q].pc \in HoldingPcs})

====
